---------------------------- MODULE Spec2Model ----------------------------
(***************************************************************************)
(* bashguard: the command-extraction parser, the semantic analyzer, the    *)
(* rule matcher and the evaluator, modelled from src/src.                  *)
(*                                                                         *)
(* Words are strings of a fixed vocabulary; CharsOf gives the characters   *)
(* of each, so that the code's character-level operations (starts_with,    *)
(* split('='), chars().is_alphabetic(), contains) are computed.            *)
(* Option<T> is a sequence of length at most one: None is <<>>, Some(x) is *)
(* <<x>>.                                                                  *)
(***************************************************************************)
EXTENDS Naturals, Integers, Sequences, FiniteSets, TLC

VARIABLES
    pc,             \* position of the run
    file_config,    \* the parsed bashguard.toml: settings, profiles, rules
    profile_store,  \* profile name -> the rules of that profile file
    config,         \* the Config built by ConfigLoader::load
    cwd,            \* std::env::current_dir(): None or Some(path)
    input,          \* the command string, as a sequence of lexemes
    ast,            \* the Program that parse_tokens returned for it
    parsed,         \* Result<Vec<ParsedCommand>>: [ok, cmds]
    commands,       \* the command list handed to the evaluator
    decision,       \* the aggregate Decision
    matched_rule,   \* the Option<Rule> returned with it
    stdout,         \* what the entry point printed
    exit_code,      \* the process's exit status (None while running)
    rule,           \* the rule handed to RuleMatcher::matches
    command,        \* the command handed to RuleMatcher::matches
    matched,        \* the result of RuleMatcher::matches
    scan            \* the locals of SemanticAnalyzer::analyze and the words left

vars == <<pc, file_config, profile_store, config, cwd, input, ast, parsed, commands,
          decision, matched_rule, stdout, exit_code, rule, command, matched,
          scan>>

None == <<>>
Some(x) == <<x>>
IsSome(o) == Len(o) = 1
Unwrap(o) == o[1]

-----------------------------------------------------------------------------
(* Bounds of the model *)

MaxInlineRules == 2
MaxCmds == 3

-----------------------------------------------------------------------------
(* Characters and words *)

Letters ==
    {"a","b","c","d","e","f","g","h","i","j","k","l","m",
     "n","o","p","q","r","s","t","u","v","w","x","y","z",
     "A","B","C","D","E","F","G","H","I","J","K","L","M",
     "N","O","P","Q","R","S","T","U","V","W","X","Y","Z"}

\* char::is_alphabetic, on the characters the vocabulary uses
IsAlphabetic(c) == c \in Letters

\* the backquote character
Backquote == "<backquote>"

\* the word date between backquotes
BackquotedDate == Backquote \o "date" \o Backquote
BackquotedRm == Backquote \o "rm" \o Backquote

\* The characters of each word of the vocabulary, as a table.
CharTable ==
    ("git" :> <<"g","i","t">>) @@
    ("rm" :> <<"r","m">>) @@
    ("ls" :> <<"l","s">>) @@
    ("remote" :> <<"r","e","m","o","t","e">>) @@
    ("add" :> <<"a","d","d">>) @@
    ("push" :> <<"p","u","s","h">>) @@
    ("status" :> <<"s","t","a","t","u","s">>) @@
    ("origin" :> <<"o","r","i","g","i","n">>) @@
    ("main" :> <<"m","a","i","n">>) @@
    ("-rf" :> <<"-","r","f">>) @@
    ("-f" :> <<"-","f">>) @@
    ("--force" :> <<"-","-","f","o","r","c","e">>) @@
    ("--message=hello" :> <<"-","-","m","e","s","s","a","g","e","=","h","e","l","l","o">>) @@
    ("-" :> <<"-">>) @@
    ("-9" :> <<"-","9">>) @@
    ("A=1" :> <<"A","=","1">>) @@
    ("rig" :> <<"r","i","g">>) @@
    ("n m" :> <<"n"," ","m">>) @@
    ("(" :> <<"(">>) @@
    ("'rm'" :> <<"'","r","m","'">>) @@
    ("'rm" :> <<"'","r","m">>) @@
    ("''" :> <<"'","'">>) @@
    ("|" :> <<"|">>) @@
    ("&&" :> <<"&","&">>) @@
    ("||" :> <<"|","|">>) @@
    (";" :> <<";">>) @@
    ("\n" :> <<"\n">>) @@
    ("out" :> <<"o","u","t">>) @@
    ("$HOME" :> <<"$","H","O","M","E">>) @@
    ("'$HOME'" :> <<"'","$","H","O","M","E","'">>) @@
    ("$(date)" :> <<"$","(","d","a","t","e",")">>) @@
    ("\"$(date)\"" :> <<"\"","$","(","d","a","t","e",")","\"">>) @@
    ("$HOME$(date)" :> <<"$","H","O","M","E","$","(","d","a","t","e",")">>) @@
    ("a$" :> <<"a","$">>) @@
    ("$" \o Backquote :> <<"$", Backquote>>) @@
    (BackquotedDate :> <<Backquote,"d","a","t","e",Backquote>>) @@
    ("A=$HOME" :> <<"A","=","$","H","O","M","E">>) @@
    ("date" :> <<"d","a","t","e">>) @@
    ("$(rm)" :> <<"$","(","r","m",")">>) @@
    ("\"$(rm)\"" :> <<"\"","$","(","r","m",")","\"">>) @@
    ("$HOME$(rm)" :> <<"$","H","O","M","E","$","(","r","m",")">>) @@
    (BackquotedRm :> <<Backquote,"r","m",Backquote>>) @@
    ("" :> <<>>)

\* the characters of a word
CharsOf(w) == CharTable[w]

Vocabulary ==
    {"git", "rm", "ls", "remote", "add", "push", "status", "origin", "main",
     "-rf", "-f", "--force", "--message=hello", "-", "-9", "A=1"}

RECURSIVE JoinChars(_)
\* the string made of a sequence of characters
JoinChars(cs) == IF cs = <<>> THEN "" ELSE Head(cs) \o JoinChars(Tail(cs))

\* str::starts_with
StartsWith(cs, prefix) ==
    Len(cs) >= Len(prefix) /\ SubSeq(cs, 1, Len(prefix)) = prefix

\* str::contains
Contains(cs, pat) ==
    \E i \in 1..(Len(cs) + 1) :
        i + Len(pat) - 1 <= Len(cs) /\ SubSeq(cs, i, i + Len(pat) - 1) = pat

RECURSIVE BeforeEq(_)
\* word.split('=').next(): the characters before the first '='
BeforeEq(cs) ==
    IF cs = <<>> \/ Head(cs) = "=" THEN <<>>
    ELSE <<Head(cs)>> \o BeforeEq(Tail(cs))

-----------------------------------------------------------------------------
(* Semantic analyzer: src/src/parser/semantic.rs *)

GitMaxDepth == 2

\* The entries of the static table for the programs of the vocabulary; the
\* token sets are cut to the vocabulary's words.
Programs ==
    [p \in {"git"} |->
        [max_subcommand_depth |-> GitMaxDepth,
         known_subcommands |-> {"add", "push", "remote", "rm", "status"}]]

\* parse_flags keeping a single-dash word without a letter as a flag
parse_flags_KeepsBareDash(word, flags) ==
    LET cs == CharsOf(word) IN
    IF StartsWith(cs, <<"-", "-">>) THEN flags \cup {JoinChars(BeforeEq(cs))}
    ELSE IF StartsWith(cs, <<"-">>) /\ \A j \in 2..Len(cs) : ~IsAlphabetic(cs[j])
         THEN flags \cup {word}
         ELSE IF StartsWith(cs, <<"-">>) /\ Len(cs) > 1
              THEN flags \cup {"-" \o cs[i] : i \in {j \in 2..Len(cs) : IsAlphabetic(cs[j])}}
              ELSE flags

\* parse_flags keeping a long flag word whole
parse_flags_WholeWord(word, flags) ==
    LET cs == CharsOf(word) IN
    IF StartsWith(cs, <<"-", "-">>) THEN flags \cup {word}
    ELSE IF StartsWith(cs, <<"-">>) /\ Len(cs) > 1
         THEN flags \cup {"-" \o cs[i] : i \in {j \in 2..Len(cs) : IsAlphabetic(cs[j])}}
         ELSE flags

\* SemanticAnalyzer::parse_flags
parse_flags(word, flags) ==
    LET cs == CharsOf(word) IN
    IF StartsWith(cs, <<"-", "-">>) THEN flags \cup {JoinChars(BeforeEq(cs))}
    ELSE IF StartsWith(cs, <<"-">>) /\ Len(cs) > 1
         THEN flags \cup {"-" \o cs[i] : i \in {j \in 2..Len(cs) : IsAlphabetic(cs[j])}}
         ELSE flags

\* The locals of SemanticAnalyzer::analyze before its loop.
AnalyzeStart ==
    [subcommands |-> <<>>, flags |-> {}, args |-> <<>>,
     in_subcommand_region |-> TRUE, subcommand_depth |-> 0]

\* analyze not called: its locals as they start, no word left
NoScan == [st |-> AnalyzeStart, rest |-> <<>>]

\* the loop body with a flag word leaving the sub-command region open
AnalyzeStep_FlagKeepsScanning(program, st, word) ==
    LET known == program \in DOMAIN Programs
        max_depth == IF known THEN Programs[program].max_subcommand_depth ELSE 0
    IN
    IF StartsWith(CharsOf(word), <<"-">>)
    THEN [st EXCEPT !.flags = parse_flags(word, st.flags)]
    ELSE IF st.in_subcommand_region /\ st.subcommand_depth < max_depth
    THEN IF known /\ word \in Programs[program].known_subcommands
         THEN [st EXCEPT !.subcommands = Append(st.subcommands, word),
                         !.subcommand_depth = st.subcommand_depth + 1]
         ELSE [st EXCEPT !.in_subcommand_region = FALSE,
                         !.args = Append(st.args, word)]
    ELSE [st EXCEPT !.args = Append(st.args, word)]

\* the loop body with an unknown word leaving the sub-command region open
AnalyzeStep_UnknownKeepsScanning(program, st, word) ==
    LET known == program \in DOMAIN Programs
        max_depth == IF known THEN Programs[program].max_subcommand_depth ELSE 0
    IN
    IF StartsWith(CharsOf(word), <<"-">>)
    THEN [st EXCEPT !.in_subcommand_region = FALSE,
                    !.flags = parse_flags(word, st.flags)]
    ELSE IF st.in_subcommand_region /\ st.subcommand_depth < max_depth
    THEN IF known /\ word \in Programs[program].known_subcommands
         THEN [st EXCEPT !.subcommands = Append(st.subcommands, word),
                         !.subcommand_depth = st.subcommand_depth + 1]
         ELSE [st EXCEPT !.args = Append(st.args, word)]
    ELSE [st EXCEPT !.args = Append(st.args, word)]

\* the loop body appending a sub-command without counting it
AnalyzeStep_DepthNotCounted(program, st, word) ==
    LET known == program \in DOMAIN Programs
        max_depth == IF known THEN Programs[program].max_subcommand_depth ELSE 0
    IN
    IF StartsWith(CharsOf(word), <<"-">>)
    THEN [st EXCEPT !.in_subcommand_region = FALSE,
                    !.flags = parse_flags(word, st.flags)]
    ELSE IF st.in_subcommand_region /\ st.subcommand_depth < max_depth
    THEN IF known /\ word \in Programs[program].known_subcommands
         THEN [st EXCEPT !.subcommands = Append(st.subcommands, word)]
         ELSE [st EXCEPT !.in_subcommand_region = FALSE,
                         !.args = Append(st.args, word)]
    ELSE [st EXCEPT !.args = Append(st.args, word)]

\* One iteration of the loop of SemanticAnalyzer::analyze.
AnalyzeStep(program, st, word) ==
    LET known == program \in DOMAIN Programs
        max_depth == IF known THEN Programs[program].max_subcommand_depth ELSE 0
    IN
    IF StartsWith(CharsOf(word), <<"-">>)
    THEN [st EXCEPT !.in_subcommand_region = FALSE,
                    !.flags = parse_flags(word, st.flags)]
    ELSE IF st.in_subcommand_region /\ st.subcommand_depth < max_depth
    THEN IF known /\ word \in Programs[program].known_subcommands
         THEN [st EXCEPT !.subcommands = Append(st.subcommands, word),
                         !.subcommand_depth = st.subcommand_depth + 1]
         ELSE [st EXCEPT !.in_subcommand_region = FALSE,
                         !.args = Append(st.args, word)]
    ELSE [st EXCEPT !.args = Append(st.args, word)]

RECURSIVE AnalyzeFrom(_, _, _)
AnalyzeFrom(program, st, remaining) ==
    IF remaining = <<>> THEN st
    ELSE AnalyzeFrom(program, AnalyzeStep(program, st, Head(remaining)),
                     Tail(remaining))

\* SemanticAnalyzer::analyze: (subcommands, flags, args)
analyze(program, remaining) ==
    LET st == AnalyzeFrom(program, AnalyzeStart, remaining) IN
    [subcommands |-> st.subcommands, flags |-> st.flags, args |-> st.args]

-----------------------------------------------------------------------------
(* ParsedCommand: the struct built at brush_adapter.rs 271-282 *)

MakeCommand(raw, words, is_piped, has_redirect, env_vars, has_exp, has_subst) ==
    LET a == analyze(words[1], Tail(words)) IN
    [raw |-> raw,
     program |-> words[1],
     subcommands |-> a.subcommands,
     args |-> a.args,
     flags |-> a.flags,
     is_piped |-> is_piped,
     has_redirect |-> has_redirect,
     env_vars |-> env_vars,
     has_expansion |-> has_exp,
     has_substitution |-> has_subst]

\* A command as the extractor builds it from a plain word list.
Cmd(words) == MakeCommand(words, words, FALSE, FALSE, {}, FALSE, FALSE)

-----------------------------------------------------------------------------
(* The syntax tree of brush_parser::ast, as brush_adapter.rs reads it.     *)
(*   Program        [complete_commands: Seq(CompoundList)]                  *)
(*   CompoundList   Seq([and_or, sep])                                      *)
(*   AndOrList      [first: Pipeline, additional: Seq([op, pipeline])]      *)
(*   Pipeline       [bang, seq: Seq(Command)]                               *)
(*   Command        [type: "Simple", simple] | [type: "Compound", compound] *)
(*                  | [type: "ExtendedTest"] | [type: "Function", ...]      *)
(*   SimpleCommand  [prefix: Seq(Item), word_or_name: Option(word),         *)
(*                   suffix: Seq(Item)]                                     *)
(*   Item           [kind: "AssignmentWord", name, value]                   *)
(*                  | [kind: "IoRedirect", op, target]                      *)
(*                  | [kind: "Word", value]                                 *)
(*                  | [kind: "ProcessSubstitution", op, list]               *)
(***************************************************************************)

WordItem(w) == [kind |-> "Word", value |-> w]
AssignItem(n, v) == [kind |-> "AssignmentWord", name |-> n, value |-> v]
RedirectItem(op, t) == [kind |-> "IoRedirect", op |-> op, target |-> t]
ProcSubstItem(op, list) == [kind |-> "ProcessSubstitution", op |-> op, list |-> list]

Simple(prefix, word, suffix) ==
    [type |-> "Simple",
     simple |-> [prefix |-> prefix, word_or_name |-> word, suffix |-> suffix]]
Compound(c) == [type |-> "Compound", compound |-> c]
Pipeline(cmds) == [bang |-> FALSE, seq |-> cmds]
AndOrList(first, additional) == [first |-> first, additional |-> additional]
ListItem(and_or, sep) == [and_or |-> and_or, sep |-> sep]
\* a Program without complete commands
NoProgram == [complete_commands |-> <<>>]

\* the compound list holding one command
ListOf(c) == <<ListItem(AndOrList(Pipeline(<<c>>), <<>>), ";")>>

\* the backquote character, which a string of this language cannot hold
RECURSIVE UnquoteChars(_, _)
\* brush_parser::unquote_str on characters: quote is the open quote ("" when
\* none).  Outside quotes a backslash makes the next character literal; in
\* double quotes it does so before a double quote, backslash, dollar or
\* backtick; in single quotes every character is literal.
UnquoteChars(cs, quote) ==
    IF cs = <<>> THEN <<>>
    ELSE LET c == Head(cs) rest == Tail(cs) IN
         IF quote = ""
         THEN IF c = "'" \/ c = "\"" THEN UnquoteChars(rest, c)
              ELSE IF c = "\\" /\ rest # <<>>
                   THEN <<Head(rest)>> \o UnquoteChars(Tail(rest), "")
                   ELSE <<c>> \o UnquoteChars(rest, "")
         ELSE IF c = quote THEN UnquoteChars(rest, "")
              ELSE IF quote = "\"" /\ c = "\\" /\ rest # <<>>
                      /\ Head(rest) \in {"\"", "\\", "$", Backquote}
                   THEN <<Head(rest)>> \o UnquoteChars(Tail(rest), quote)
                   ELSE <<c>> \o UnquoteChars(rest, quote)

\* unquote_word
unquote_word(value) == JoinChars(UnquoteChars(CharsOf(value), ""))

\* assignment_name_to_string, for a VariableName
assignment_name_to_string(name) == name

\* assignment_value_to_string, for a Scalar: the word as written
assignment_value_to_string(value) == value

\* contains_expansion counting every "$" that a character follows
contains_expansion_AnyDollar(w) ==
    LET cs == CharsOf(w) IN \E i \in 1..Len(cs) : cs[i] = "$" /\ i < Len(cs)

\* contains_expansion
contains_expansion(w) ==
    LET cs == CharsOf(w) IN
    \E i \in 1..Len(cs) :
        cs[i] = "$" /\ i < Len(cs) /\ cs[i + 1] \notin {"(", Backquote}

\* contains_substitution
contains_substitution(w) ==
    LET cs == CharsOf(w) IN Contains(cs, <<"$", "(">>) \/ Contains(cs, <<Backquote>>)

\* HashMap::insert
MapInsert(m, k, v) == {e \in m : e[1] # k} \cup {<<k, v>>}

RECURSIVE PrefixScan_TargetAsWord(_, _)
\* the loop over the prefix items taking the target of a redirection for a
\* word
PrefixScan_TargetAsWord(items, acc) ==
    IF items = <<>> THEN acc
    ELSE LET it == Head(items) IN
         PrefixScan_TargetAsWord(Tail(items),
            CASE it.kind = "AssignmentWord" ->
                    [acc EXCEPT !.env_vars =
                        MapInsert(acc.env_vars,
                                  assignment_name_to_string(it.name),
                                  assignment_value_to_string(it.value))]
              [] it.kind = "IoRedirect" ->
                    [acc EXCEPT !.has_redirect = TRUE,
                                !.words = Append(acc.words, unquote_word(it.target))]
              [] it.kind = "Word" ->
                    [acc EXCEPT !.words = Append(acc.words, unquote_word(it.value))]
              [] it.kind = "ProcessSubstitution" ->
                    [acc EXCEPT !.has_redirect = TRUE])

RECURSIVE PrefixScan(_, _)
\* the loop over the prefix items, brush_adapter.rs 204-222;
\* acc is [env_vars, has_redirect, words]
PrefixScan(items, acc) ==
    IF items = <<>> THEN acc
    ELSE LET it == Head(items) IN
         PrefixScan(Tail(items),
            CASE it.kind = "AssignmentWord" ->
                    [acc EXCEPT !.env_vars =
                        MapInsert(acc.env_vars,
                                  assignment_name_to_string(it.name),
                                  assignment_value_to_string(it.value))]
              [] it.kind = "IoRedirect" -> [acc EXCEPT !.has_redirect = TRUE]
              [] it.kind = "Word" ->
                    [acc EXCEPT !.words = Append(acc.words, unquote_word(it.value))]
              [] it.kind = "ProcessSubstitution" ->
                    [acc EXCEPT !.has_redirect = TRUE])

RECURSIVE SuffixScan_AssignsEnv(_, _)
\* the loop over the suffix items recording an AssignmentWord in env_vars
SuffixScan_AssignsEnv(items, acc) ==
    IF items = <<>> THEN acc
    ELSE LET it == Head(items) IN
         SuffixScan_AssignsEnv(Tail(items),
            CASE it.kind = "IoRedirect" -> [acc EXCEPT !.has_redirect = TRUE]
              [] it.kind = "Word" ->
                    [acc EXCEPT !.words = Append(acc.words, unquote_word(it.value))]
              [] it.kind = "AssignmentWord" ->
                    [acc EXCEPT !.env_vars =
                        MapInsert(acc.env_vars,
                                  assignment_name_to_string(it.name),
                                  assignment_value_to_string(it.value))]
              [] it.kind = "ProcessSubstitution" ->
                    [acc EXCEPT !.has_redirect = TRUE])

RECURSIVE SuffixScan(_, _)
\* the loop over the suffix items, brush_adapter.rs 233-252
SuffixScan(items, acc) ==
    IF items = <<>> THEN acc
    ELSE LET it == Head(items) IN
         SuffixScan(Tail(items),
            CASE it.kind = "IoRedirect" -> [acc EXCEPT !.has_redirect = TRUE]
              [] it.kind = "Word" ->
                    [acc EXCEPT !.words = Append(acc.words, unquote_word(it.value))]
              [] it.kind = "AssignmentWord" ->
                    [acc EXCEPT !.words =
                        Append(acc.words,
                               assignment_name_to_string(it.name) \o "=" \o
                               assignment_value_to_string(it.value))]
              [] it.kind = "ProcessSubstitution" ->
                    [acc EXCEPT !.has_redirect = TRUE])

\* extract_simple_command: Option<ParsedCommand>
extract_simple_command(cmd, ctx, is_piped) ==
    LET a0 == [env_vars |-> {}, has_redirect |-> FALSE, words |-> <<>>]
        a1 == PrefixScan(cmd.prefix, a0)
        a2 == IF IsSome(cmd.word_or_name)
              THEN [a1 EXCEPT !.words =
                        Append(a1.words, unquote_word(Unwrap(cmd.word_or_name)))]
              ELSE a1
        a3 == SuffixScan(cmd.suffix, a2)
        words == a3.words
    IN
    IF words = <<>> THEN None
    ELSE Some(MakeCommand(ctx, words, is_piped, a3.has_redirect, a3.env_vars,
                          \E i \in 1..Len(words) : contains_expansion(words[i]),
                          \E i \in 1..Len(words) : contains_substitution(words[i])))

RECURSIVE extract_from_compound_list(_, _)
RECURSIVE extract_from_and_or_list(_, _)
RECURSIVE extract_from_pipeline(_, _)
RECURSIVE extract_from_command(_, _, _)
RECURSIVE extract_from_compound_command(_, _)
RECURSIVE ExtractLists(_, _)
RECURSIVE ExtractAdditional(_, _)
RECURSIVE ExtractSeq(_, _, _)
RECURSIVE ExtractCases(_, _)
RECURSIVE ExtractElses(_, _)

\* Each extract_* gives the commands it pushes onto results, in order.

\* extract_from_compound_list over a sequence of compound lists, in order
ExtractLists(lists, ctx) ==
    IF lists = <<>> THEN <<>>
    ELSE extract_from_compound_list(Head(lists), ctx) \o ExtractLists(Tail(lists), ctx)

\* extract_from_compound_list
extract_from_compound_list(compound_list, ctx) ==
    IF compound_list = <<>> THEN <<>>
    ELSE extract_from_and_or_list(Head(compound_list).and_or, ctx)
         \o extract_from_compound_list(Tail(compound_list), ctx)

\* the first pipeline alone: the pipelines after "&&" and "||" left out
ExtractAdditional_None(additional, ctx) == <<>>

\* the loop over and_or.additional, brush_adapter.rs 79-84
ExtractAdditional(additional, ctx) ==
    IF additional = <<>> THEN <<>>
    ELSE extract_from_pipeline(Head(additional).pipeline, ctx)
         \o ExtractAdditional(Tail(additional), ctx)

\* extract_from_and_or_list
extract_from_and_or_list(and_or, ctx) ==
    extract_from_pipeline(and_or.first, ctx) \o ExtractAdditional(and_or.additional, ctx)

\* the first command of the pipeline alone
ExtractSeq_FirstOnly(seq, ctx, is_piped) ==
    IF seq = <<>> THEN <<>> ELSE extract_from_command(Head(seq), ctx, is_piped)

\* the loop over pipeline.seq, brush_adapter.rs 97-99
ExtractSeq(seq, ctx, is_piped) ==
    IF seq = <<>> THEN <<>>
    ELSE extract_from_command(Head(seq), ctx, is_piped)
         \o ExtractSeq(Tail(seq), ctx, is_piped)

\* extract_from_pipeline
extract_from_pipeline(pipeline, ctx) ==
    ExtractSeq(pipeline.seq, ctx, Len(pipeline.seq) > 1)

\* extract_from_command going into the body of a function definition
extract_from_command_IntoFunctions(cmd, ctx, is_piped) ==
    CASE cmd.type = "Simple" -> extract_simple_command(cmd.simple, ctx, is_piped)
      [] cmd.type = "Compound" -> extract_from_compound_command(cmd.compound, ctx)
      [] cmd.type = "ExtendedTest" -> <<>>
      [] cmd.type = "Function" -> extract_from_command(cmd.body, ctx, FALSE)

\* extract_from_command
extract_from_command(cmd, ctx, is_piped) ==
    CASE cmd.type = "Simple" -> extract_simple_command(cmd.simple, ctx, is_piped)
      [] cmd.type = "Compound" -> extract_from_compound_command(cmd.compound, ctx)
      [] cmd.type = "ExtendedTest" -> <<>>
      [] cmd.type = "Function" -> <<>>

\* the loop over case_clause.cases, brush_adapter.rs 151-155
ExtractCases(cases, ctx) ==
    IF cases = <<>> THEN <<>>
    ELSE (IF IsSome(Head(cases).cmd)
          THEN extract_from_compound_list(Unwrap(Head(cases).cmd), ctx)
          ELSE <<>>)
         \o ExtractCases(Tail(cases), ctx)

\* the loop over the else clauses without their conditions
ExtractElses_BodiesOnly(elses, ctx) ==
    IF elses = <<>> THEN <<>>
    ELSE extract_from_compound_list(Head(elses).body, ctx)
         \o ExtractElses(Tail(elses), ctx)

\* the loop over if_clause.elses, brush_adapter.rs 164-169
ExtractElses(elses, ctx) ==
    IF elses = <<>> THEN <<>>
    ELSE (IF IsSome(Head(elses).condition)
          THEN extract_from_compound_list(Unwrap(Head(elses).condition), ctx)
          ELSE <<>>)
         \o extract_from_compound_list(Head(elses).body, ctx)
         \o ExtractElses(Tail(elses), ctx)

\* extract_from_compound_command
extract_from_compound_command(compound, ctx) ==
    CASE compound.kind = "Subshell" -> extract_from_compound_list(compound.list, ctx)
      [] compound.kind = "BraceGroup" -> extract_from_compound_list(compound.list, ctx)
      [] compound.kind = "ForClause" -> extract_from_compound_list(compound.body, ctx)
      [] compound.kind = "CaseClause" -> ExtractCases(compound.cases, ctx)
      [] compound.kind = "IfClause" ->
            extract_from_compound_list(compound.condition, ctx)
            \o extract_from_compound_list(compound.then, ctx)
            \o (IF IsSome(compound.elses)
                THEN ExtractElses(Unwrap(compound.elses), ctx)
                ELSE <<>>)
      [] compound.kind = "WhileClause" ->
            extract_from_compound_list(compound.condition, ctx)
            \o extract_from_compound_list(compound.body, ctx)
      [] compound.kind = "UntilClause" ->
            extract_from_compound_list(compound.condition, ctx)
            \o extract_from_compound_list(compound.body, ctx)
      [] compound.kind = "ArithmeticForClause" ->
            extract_from_compound_list(compound.body, ctx)
      [] compound.kind = "Arithmetic" -> <<>>

-----------------------------------------------------------------------------
(* brush_parser::tokenize_str and brush_parser::parse_tokens, as called at *)
(* brush_adapter.rs 20-26, for the command strings of the model: a string  *)
(* is its lexemes joined by single spaces, a lexeme being a word, an       *)
(* operator, or nothing (which leaves blanks only).  The grammar is the    *)
(* shell's: a program is complete commands separated by newlines, a        *)
(* complete command is and-or lists separated by ";", an and-or list is    *)
(* pipelines joined by "&&" or "||", a pipeline is commands joined by "|". *)
(***************************************************************************)

Ok(v) == [ok |-> TRUE, value |-> v]
Err(e) == [ok |-> FALSE, error |-> e]

OperatorLexemes == {"|", "&&", "||", ";", "\n"}

RECURSIVE QuoteAtEnd(_, _)
\* the quote left open at the end of a word ("" when none)
QuoteAtEnd(cs, quote) ==
    IF cs = <<>> THEN quote
    ELSE LET c == Head(cs) rest == Tail(cs) IN
         IF quote = ""
         THEN IF c = "'" \/ c = "\"" THEN QuoteAtEnd(rest, c)
              ELSE IF c = "\\" /\ rest # <<>> THEN QuoteAtEnd(Tail(rest), "")
                   ELSE QuoteAtEnd(rest, "")
         ELSE IF c = quote THEN QuoteAtEnd(rest, "")
              ELSE IF quote = "\"" /\ c = "\\" /\ rest # <<>>
                   THEN QuoteAtEnd(Tail(rest), quote)
                   ELSE QuoteAtEnd(rest, quote)

RECURSIVE TokensOf(_)
\* the tokens of the lexemes: blanks separate tokens and give none
TokensOf(lexemes) ==
    IF lexemes = <<>> THEN <<>>
    ELSE LET l == Head(lexemes) IN
         (IF l = "" THEN <<>>
          ELSE IF l \in OperatorLexemes
               THEN <<[kind |-> "Operator", text |-> l]>>
               ELSE <<[kind |-> "Word", text |-> l]>>)
         \o TokensOf(Tail(lexemes))

RECURSIVE TextChars(_)
\* the characters of a command string: its lexemes joined by single spaces
TextChars(lexemes) ==
    IF lexemes = <<>> THEN <<>>
    ELSE IF Len(lexemes) = 1 THEN CharsOf(Head(lexemes))
         ELSE CharsOf(Head(lexemes)) \o <<" ">> \o TextChars(Tail(lexemes))

\* The command strings whose words are their lexemes: a quote a lexeme
\* leaves open is closed by no later lexeme (it would join the lexemes
\* between them into one word).
QuotesWithinLexemes(lexemes) ==
    \/ QuoteAtEnd(TextChars(lexemes), "") # ""
    \/ \A i \in 1..Len(lexemes) : QuoteAtEnd(CharsOf(lexemes[i]), "") = ""

\* tokenize_str: an unterminated quote is an error
tokenize_str(lexemes) ==
    IF QuoteAtEnd(TextChars(lexemes), "") # ""
    THEN Err("Tokenizer error")
    ELSE Ok(TokensOf(lexemes))

IsOp(ts, op) == ts # <<>> /\ Head(ts).kind = "Operator" /\ Head(ts).text = op
IsWordTok(ts) == ts # <<>> /\ Head(ts).kind = "Word"

RECURSIVE SkipNewlines(_)
\* linebreak: any number of newline tokens
SkipNewlines(ts) == IF IsOp(ts, "\n") THEN SkipNewlines(Tail(ts)) ELSE ts

\* a word of the form NAME=VALUE, NAME made of letters
IsAssignmentWord(w) ==
    LET cs == CharsOf(w) name == BeforeEq(cs) IN
    /\ name # <<>>
    /\ Len(name) < Len(cs)
    /\ \A i \in 1..Len(name) : IsAlphabetic(name[i])

\* the AssignmentWord item of such a word
AssignmentOf(w) ==
    LET cs == CharsOf(w) name == BeforeEq(cs) IN
    AssignItem(JoinChars(name), JoinChars(SubSeq(cs, Len(name) + 2, Len(cs))))

Parsed(node, rest) == [ok |-> TRUE, node |-> node, rest |-> rest]
NoParse == [ok |-> FALSE]

RECURSIVE ParsePrefix(_, _)
\* cmd_prefix: the assignment words before the command word
ParsePrefix(ts, items) ==
    IF IsWordTok(ts) /\ IsAssignmentWord(Head(ts).text)
    THEN ParsePrefix(Tail(ts), Append(items, AssignmentOf(Head(ts).text)))
    ELSE Parsed(items, ts)

RECURSIVE ParseSuffix(_, _)
\* cmd_suffix: the words after the command word
ParseSuffix(ts, items) ==
    IF IsWordTok(ts)
    THEN ParseSuffix(Tail(ts),
            Append(items, IF IsAssignmentWord(Head(ts).text)
                          THEN AssignmentOf(Head(ts).text)
                          ELSE WordItem(Head(ts).text)))
    ELSE Parsed(items, ts)

\* simple_command after its prefix p and, where there is one, its word and
\* suffix s
SimpleWithWord(p, s) ==
    Parsed(Simple(p.node, Some(Head(p.rest).text), s.node), s.rest)

SimpleAfterPrefix(p) ==
    IF IsWordTok(p.rest) THEN SimpleWithWord(p, ParseSuffix(Tail(p.rest), <<>>))
    ELSE IF p.node # <<>> THEN Parsed(Simple(p.node, None, <<>>), p.rest)
    ELSE NoParse

\* simple_command: prefix word suffix, or a prefix alone
ParseSimple(ts) == SimpleAfterPrefix(ParsePrefix(ts, <<>>))

RECURSIVE ParsePipelineRest(_, _)
RECURSIVE PipelineWith(_, _, _)

\* ("|" linebreak command)*: cmds are the commands read, ts the tokens left
ParsePipelineRest(cmds, ts) ==
    IF IsOp(ts, "|")
    THEN PipelineWith(cmds, ts, ParseSimple(SkipNewlines(Tail(ts))))
    ELSE Parsed(Pipeline(cmds), ts)

\* c is the result of reading a command after the "|" at the head of ts
PipelineWith(cmds, ts, c) ==
    IF c.ok THEN ParsePipelineRest(Append(cmds, c.node), c.rest)
    ELSE Parsed(Pipeline(cmds), ts)

PipelineFrom(c) == IF c.ok THEN ParsePipelineRest(<<c.node>>, c.rest) ELSE NoParse

\* pipeline
ParsePipeline(ts) == PipelineFrom(ParseSimple(ts))

RECURSIVE ParseAndOrRest(_, _, _)
RECURSIVE AndOrWith(_, _, _, _)

\* (("&&" | "||") linebreak pipeline)*
ParseAndOrRest(first, additional, ts) ==
    IF IsOp(ts, "&&") \/ IsOp(ts, "||")
    THEN AndOrWith(first, additional, ts, ParsePipeline(SkipNewlines(Tail(ts))))
    ELSE Parsed(AndOrList(first, additional), ts)

\* p is the result of reading a pipeline after the operator at the head of ts
AndOrWith(first, additional, ts, p) ==
    IF p.ok
    THEN ParseAndOrRest(first,
            Append(additional,
                   [op |-> IF Head(ts).text = "&&" THEN "And" ELSE "Or",
                    pipeline |-> p.node]),
            p.rest)
    ELSE Parsed(AndOrList(first, additional), ts)

AndOrFrom(p) == IF p.ok THEN ParseAndOrRest(p.node, <<>>, p.rest) ELSE NoParse

\* and_or
ParseAndOr(ts) == AndOrFrom(ParsePipeline(ts))

RECURSIVE ParseCompleteRest(_, _)
RECURSIVE CompleteWith(_, _, _)

\* (";" and_or)* ";"?
ParseCompleteRest(items, ts) ==
    IF IsOp(ts, ";") THEN CompleteWith(items, ts, ParseAndOr(Tail(ts)))
    ELSE Parsed(items, ts)

\* n is the result of reading an and-or list after the ";" at the head of ts
CompleteWith(items, ts, n) ==
    IF n.ok THEN ParseCompleteRest(Append(items, ListItem(n.node, ";")), n.rest)
    ELSE Parsed(items, Tail(ts))

CompleteFrom(a) ==
    IF a.ok THEN ParseCompleteRest(<<ListItem(a.node, ";")>>, a.rest) ELSE NoParse

\* complete_command
ParseCompleteCommand(ts) == CompleteFrom(ParseAndOr(ts))

RECURSIVE ParseCompleteCommands(_, _)
RECURSIVE CommandsWith(_, _, _)

\* (newline_list complete_command)*
ParseCompleteCommands(lists, ts) ==
    IF IsOp(ts, "\n")
    THEN CommandsWith(lists, ts, ParseCompleteCommand(SkipNewlines(ts)))
    ELSE Parsed(lists, ts)

\* c is the result of reading a complete command after the newlines at the
\* head of ts
CommandsWith(lists, ts, c) ==
    IF c.ok THEN ParseCompleteCommands(Append(lists, c.node), c.rest)
    ELSE Parsed(lists, ts)

\* the program of the complete commands read, when no token is left
ProgramFrom(all) ==
    IF SkipNewlines(all.rest) = <<>> THEN Ok([complete_commands |-> all.node])
    ELSE Err("Parse error")

ProgramAfterFirst(first) ==
    IF first.ok THEN ProgramFrom(ParseCompleteCommands(<<first.node>>, first.rest))
    ELSE Err("Parse error")

\* program: linebreak, then complete commands separated by newlines, or
\* nothing
ProgramOfTokens(ts) ==
    IF ts = <<>> THEN Ok(NoProgram) ELSE ProgramAfterFirst(ParseCompleteCommand(ts))

\* parse_tokens: Result<Program>
parse_tokens(tokens) == ProgramOfTokens(SkipNewlines(tokens))

\* input.trim().is_empty()
IsBlank(lexemes) == \A i \in 1..Len(lexemes) : lexemes[i] \in {"", "\n"}

\* the same without the check at brush_adapter.rs 37-39
ExtractProgram_NoBail(program, input_) ==
    Ok(ExtractLists(program.complete_commands, input_))

\* the part of parse_with_brush after parse_tokens, brush_adapter.rs 28-41
ExtractProgram(program, input_) ==
    LET results == ExtractLists(program.complete_commands, input_) IN
    IF results = <<>> /\ ~IsBlank(input_)
    THEN Err("No commands found in input")
    ELSE Ok(results)

\* parse_with_brush from the result p of parse_tokens on
AfterParse(p, input_) == IF p.ok THEN ExtractProgram(p.value, input_) ELSE p

\* parse_with_brush from the result t of tokenize_str on
AfterTokenize(t, input_) ==
    IF t.ok THEN AfterParse(parse_tokens(t.value), input_) ELSE t

\* parse_with_brush giving the empty list where the tokenizer or the parser
\* fails
parse_with_brush_ErrorsAsEmpty(input_) ==
    IF AfterTokenize(tokenize_str(input_), input_).ok
    THEN AfterTokenize(tokenize_str(input_), input_)
    ELSE Ok(<<>>)

\* parse_with_brush: Result<Vec<ParsedCommand>>
parse_with_brush(input_) == AfterTokenize(tokenize_str(input_), input_)

-----------------------------------------------------------------------------
(* Rule matcher: src/src/rules/matcher.rs *)

RECURSIVE JoinArgs(_)
\* command.args.join(" "), as characters
JoinArgs(args) ==
    IF args = <<>> THEN <<>>
    ELSE IF Len(args) = 1 THEN CharsOf(args[1])
    ELSE CharsOf(args[1]) \o <<" ">> \o JoinArgs(Tail(args))

\* Regex::new(pattern).is_ok(): of the patterns of the model, "(" alone
\* does not compile.
RegexCompiles(pattern) == pattern # "("

\* Regex::is_match for the patterns of the model that compile: they are
\* made of literal characters, and match where they occur.
RegexIsMatch(pattern, cs) == Contains(cs, CharsOf(pattern))

\* glob::Pattern::new(pattern).is_ok(): of the globs of the model, "["
\* alone is invalid.
GlobCompiles(pattern) == pattern # "["

\* glob::Pattern::matches for the globs of the model: "*" matches every
\* path, a glob without metacharacters matches itself.
GlobMatches(pattern, path) == pattern = "*" \/ pattern = path

\* the program condition, matcher.rs 12-16
ProgramOk(r, c) ==
    IsSome(r.program) => c.program = Unwrap(r.program)

\* the sub-command condition, matcher.rs 19-36
SubcommandsOk(r, c) ==
    (r.subcommands # <<>>) =>
        IF r.subcommands_exact
        THEN c.subcommands = r.subcommands
        ELSE /\ Len(c.subcommands) >= Len(r.subcommands)
             /\ \A i \in 1..Len(r.subcommands) :
                    c.subcommands[i] = r.subcommands[i]

\* the flag conditions with the forbidden flags looked up as whole words
FlagsOk_AbsentAsWord(r, c) ==
    /\ \A i \in 1..Len(r.flags_present) : r.flags_present[i] \in c.flags
    /\ \A i \in 1..Len(r.flags_absent) :
            \A j \in 1..Len(c.raw) : c.raw[j] # r.flags_absent[i]

\* flags_present and flags_absent, matcher.rs 39-50
FlagsOk(r, c) ==
    /\ \A i \in 1..Len(r.flags_present) : r.flags_present[i] \in c.flags
    /\ \A i \in 1..Len(r.flags_absent) : r.flags_absent[i] \notin c.flags

\* args_match looked for in the raw text of the command
ArgsMatchOk_InRaw(r, c) ==
    IsSome(r.args_match) =>
        Contains(JoinArgs(c.raw), CharsOf(Unwrap(r.args_match)))

\* args_match, matcher.rs 53-58
ArgsMatchOk(r, c) ==
    IsSome(r.args_match) =>
        Contains(JoinArgs(c.args), CharsOf(Unwrap(r.args_match)))

\* args_regex with the check skipped for a pattern that does not compile
ArgsRegexOk_SkipInvalid(r, c) ==
    (IsSome(r.args_regex) /\ RegexCompiles(Unwrap(r.args_regex))) =>
        RegexIsMatch(Unwrap(r.args_regex), JoinArgs(c.args))

\* args_regex, matcher.rs 61-74
ArgsRegexOk(r, c) ==
    IsSome(r.args_regex) =>
        /\ RegexCompiles(Unwrap(r.args_regex))
        /\ RegexIsMatch(Unwrap(r.args_regex), JoinArgs(c.args))

\* working_dir, matcher.rs 77-91: checked only when current_dir() is Ok
WorkingDirOk(r, dir) ==
    (IsSome(r.working_dir) /\ IsSome(dir)) =>
        /\ GlobCompiles(Unwrap(r.working_dir))
        /\ GlobMatches(Unwrap(r.working_dir), Unwrap(dir))

\* matches with the program condition waived for a rule that requires a flag
matches_FlagWaivesProgram(r, c, dir) ==
    /\ ProgramOk(r, c) \/ r.flags_present # <<>>
    /\ SubcommandsOk(r, c)
    /\ FlagsOk(r, c)
    /\ ArgsMatchOk(r, c)
    /\ ArgsRegexOk(r, c)
    /\ WorkingDirOk(r, dir)

\* RuleMatcher::matches; dir is what std::env::current_dir() returns
matches(r, c, dir) ==
    /\ ProgramOk(r, c)
    /\ SubcommandsOk(r, c)
    /\ FlagsOk(r, c)
    /\ ArgsMatchOk(r, c)
    /\ ArgsRegexOk(r, c)
    /\ WorkingDirOk(r, dir)

-----------------------------------------------------------------------------
(* Evaluator: src/src/rules/evaluator.rs *)

Allow == [kind |-> "Allow"]
Deny(m) == [kind |-> "Deny", message |-> m]
Prompt(m) == [kind |-> "Prompt", message |-> m]

\* make_decision dropping the rule's own message
make_decision_NoRuleMessage(r) ==
    CASE r.action = "Allow" -> Allow
      [] r.action = "Deny" -> Deny("Blocked by rule")
      [] r.action = "Prompt" -> Prompt("Requires confirmation")

\* Evaluator::make_decision
make_decision(r) ==
    CASE r.action = "Allow" -> Allow
      [] r.action = "Deny" ->
            Deny(IF IsSome(r.message) THEN Unwrap(r.message)
                 ELSE "Blocked by rule")
      [] r.action = "Prompt" ->
            Prompt(IF IsSome(r.message) THEN Unwrap(r.message)
                   ELSE "Requires confirmation")

\* the match on default_action, evaluator.rs 98-106
DefaultDecision(cfg) ==
    CASE cfg.settings.default_action = "Allow" -> Allow
      [] cfg.settings.default_action = "Deny" -> Deny("Blocked by default policy")
      [] cfg.settings.default_action = "Prompt" -> Prompt("No matching rule found")

RECURSIVE FirstMatch(_, _, _)
\* a loop "for rule in rules { if matches(rule, command) { return ... } }":
\* the first rule of the list that matches, if any
FirstMatch(rules, c, dir) ==
    IF rules = <<>> THEN None
    ELSE IF matches(Head(rules), c, dir) THEN Some(Head(rules))
    ELSE FirstMatch(Tail(rules), c, dir)

\* the first of two results that is Some
OrElse(m, other) == IF IsSome(m) THEN m ELSE other

RECURSIVE FirstProfileMatch(_, _, _)
\* the nested loops over loaded_profiles, evaluator.rs 89-95
FirstProfileMatch(profiles, c, dir) ==
    IF profiles = <<>> THEN None
    ELSE OrElse(FirstMatch(Head(profiles).rules, c, dir),
                FirstProfileMatch(Tail(profiles), c, dir))

\* the decision for the first rule that matched, evaluator.rs 82-95, or
\* for none, evaluator.rs 98-108
DecisionOf(cfg, found) ==
    IF IsSome(found)
    THEN <<make_decision(Unwrap(found)), found>>
    ELSE <<DefaultDecision(cfg), None>>

\* Evaluator::evaluate_single_with_trace: <<Decision, Option<Rule>>>
evaluate_single_with_trace(cfg, c, dir) ==
    DecisionOf(cfg, OrElse(FirstMatch(cfg.rules, c, dir),
                           FirstProfileMatch(cfg.loaded_profiles, c, dir)))

\* the loop body without the (Prompt, Deny) arm of the match
EvalAllStep_NoPromptToDeny(cfg, acc, c, dir) ==
    LET r == evaluate_single_with_trace(cfg, c, dir)
        d == r[1]
        upgrade == acc.strictest_decision.kind = "Allow" /\ d.kind \in {"Deny", "Prompt"}
        sd == IF upgrade THEN d ELSE acc.strictest_decision
        mr == IF upgrade THEN r[2] ELSE acc.matched_rule
    IN [strictest_decision |-> sd, matched_rule |-> mr,
        stopped |-> (sd.kind = "Deny")]

\* the match on (strictest_decision, decision), evaluator.rs 46-60, for
\* the result r of evaluate_single_with_trace
Upgraded(acc, r) ==
    LET d == r[1]
        upgrade ==
            \/ acc.strictest_decision.kind = "Allow" /\ d.kind \in {"Deny", "Prompt"}
            \/ acc.strictest_decision.kind = "Prompt" /\ d.kind = "Deny"
        sd == IF upgrade THEN d ELSE acc.strictest_decision
        mr == IF upgrade THEN r[2] ELSE acc.matched_rule
    IN [strictest_decision |-> sd, matched_rule |-> mr,
        stopped |-> (sd.kind = "Deny")]

\* one iteration of the loop of evaluate_all_with_trace, evaluator.rs 42-60;
\* acc is [strictest_decision, matched_rule, stopped]
EvalAllStep(cfg, acc, c, dir) ==
    Upgraded(acc, evaluate_single_with_trace(cfg, c, dir))

RECURSIVE EvalAllFrom(_, _, _, _)
EvalAllFrom(cfg, acc, cmds, dir) ==
    IF cmds = <<>> \/ acc.stopped THEN acc
    ELSE EvalAllFrom(cfg, EvalAllStep(cfg, acc, Head(cmds), dir), Tail(cmds), dir)

\* (strictest_decision, matched_rule), evaluator.rs 62
Returned(acc) == <<acc.strictest_decision, acc.matched_rule>>

\* evaluate_all_with_trace giving the default action for an empty list
evaluate_all_with_trace_DefaultWhenEmpty(cfg, cmds, dir) ==
    LET acc == EvalAllFrom(cfg, [strictest_decision |->
                                    IF cmds = <<>> THEN DefaultDecision(cfg) ELSE Allow,
                                 matched_rule |-> None,
                                 stopped |-> FALSE], cmds, dir)
    IN <<acc.strictest_decision, acc.matched_rule>>

\* evaluate_all_with_trace starting from the decision of the call before
evaluate_all_with_trace_KeepsDecision(cfg, cmds, dir) ==
    LET acc == EvalAllFrom(cfg, [strictest_decision |-> decision,
                                 matched_rule |-> None,
                                 stopped |-> FALSE], cmds, dir)
    IN <<acc.strictest_decision, acc.matched_rule>>

\* Evaluator::evaluate_all_with_trace: <<Decision, Option<Rule>>>
evaluate_all_with_trace(cfg, cmds, dir) ==
    Returned(EvalAllFrom(cfg, [strictest_decision |-> Allow,
                               matched_rule |-> None,
                               stopped |-> FALSE], cmds, dir))

\* Evaluator::evaluate_all
evaluate_all(cfg, cmds, dir) == evaluate_all_with_trace(cfg, cmds, dir)[1]

-----------------------------------------------------------------------------
(* Configuration: src/src/config/types.rs, src/src/config/loader.rs *)

\* Settings::default and Config::default, types.rs 59-66
DefaultConfig ==
    [settings |-> [default_action |-> "Prompt"],
     profiles |-> [builtins |-> <<>>, custom |-> <<>>],
     rules |-> <<>>,
     loaded_profiles |-> <<>>]

\* Config::is_profile_active
is_profile_active(cfg, name) ==
    \/ \E i \in 1..Len(cfg.profiles.builtins) : cfg.profiles.builtins[i] = name
    \/ \E i \in 1..Len(cfg.profiles.custom) : cfg.profiles.custom[i] = name

RECURSIVE LoadBuiltins(_, _)
\* the loop of ConfigLoader::load over config.profiles.builtins, with
\* load_profile_builtin: None when a named profile file does not exist
LoadBuiltins(names, store) ==
    IF names = <<>> THEN Some(<<>>)
    ELSE IF Head(names) \notin DOMAIN store THEN None
    ELSE LET rest == LoadBuiltins(Tail(names), store) IN
         IF IsSome(rest)
         THEN Some(<<[name |-> Head(names), rules |-> store[Head(names)]]>>
                   \o Unwrap(rest))
         ELSE None

\* ConfigLoader::load: file is the parsed bashguard.toml (None when the file
\* does not exist), store the profile files by name.  Result<Config>.
load(file, store) ==
    LET cfg == IF IsSome(file) THEN Unwrap(file) ELSE DefaultConfig
        loaded == LoadBuiltins(cfg.profiles.builtins, store)
    IN
    IF IsSome(loaded)
    THEN [ok |-> TRUE, config |-> [cfg EXCEPT !.loaded_profiles = Unwrap(loaded)]]
    ELSE [ok |-> FALSE, config |-> cfg]

-----------------------------------------------------------------------------
(* The inputs of the evaluation runs *)

BoundedSeqs(S, n) == UNION {[1..k -> S] : k \in 0..n}

\* sequences of length at most n without repetition
InjectiveSeqs(S, n) ==
    {q \in BoundedSeqs(S, n) : \A i, j \in 1..Len(q) : i # j => q[i] # q[j]}

\* a rule with a program and sub-command condition only
ProgRule(program, subcommands, exact, action, message) ==
    [program |-> program, subcommands |-> subcommands,
     subcommands_exact |-> exact, args_match |-> None, args_regex |-> None,
     flags_present |-> <<>>, flags_absent |-> <<>>, working_dir |-> None,
     action |-> action, message |-> message]

\* a rule whose only condition is a regular expression that does not compile
BadRegexRule ==
    [ProgRule(None, <<>>, FALSE, "Deny", Some("bad pattern"))
        EXCEPT !.args_regex = Some("(")]

InlineRules ==
    {ProgRule(Some("rm"), <<>>, FALSE, "Deny", Some("rm blocked")),
     ProgRule(Some("git"), <<"push">>, FALSE, "Allow", None),
     ProgRule(Some("git"), <<>>, FALSE, "Prompt", None),
     ProgRule(None, <<>>, FALSE, "Deny", None),
     BadRegexRule}

ProfileFiles ==
    [n \in {"git/strict", "base"} |->
        IF n = "git/strict"
        THEN <<ProgRule(Some("git"), <<"push">>, FALSE, "Deny", Some("Blocked by profile")),
               ProgRule(Some("git"), <<"status">>, TRUE, "Prompt", Some("check status"))>>
        ELSE <<ProgRule(Some("ls"), <<>>, FALSE, "Allow", None),
               ProgRule(Some("git"), <<>>, FALSE, "Deny", Some("no git")),
               ProgRule(Some("rm"), <<>>, FALSE, "Prompt", Some("confirm rm"))>>]

Actions == {"Allow", "Deny", "Prompt"}

\* the active profile lists of the runs: no profile is named twice
ProfileLists ==
    {[builtins |-> b, custom |-> c] :
        b \in InjectiveSeqs(DOMAIN ProfileFiles, 2),
        c \in InjectiveSeqs(DOMAIN ProfileFiles, 1)} \
    {pl \in [builtins : InjectiveSeqs(DOMAIN ProfileFiles, 2),
             custom : InjectiveSeqs(DOMAIN ProfileFiles, 1)] :
        \E i \in 1..Len(pl.custom), j \in 1..Len(pl.builtins) :
            pl.custom[i] = pl.builtins[j]}

\* the bashguard.toml files of the runs
FileConfigs ==
    {[settings |-> [default_action |-> a],
      profiles |-> pl,
      rules |-> rs,
      loaded_profiles |-> <<>>] :
        a \in Actions,
        pl \in ProfileLists,
        rs \in InjectiveSeqs(InlineRules, MaxInlineRules)}

EvalCommands ==
    {Cmd(<<"git", "push", "origin">>), Cmd(<<"git", "status">>),
     Cmd(<<"rm", "-rf", "main">>), Cmd(<<"ls">>)}

NoCommand == Cmd(<<"">>)
NoRule == ProgRule(None, <<>>, FALSE, "Allow", None)

-----------------------------------------------------------------------------
(* The evaluation run: Config::load, then evaluate_all_with_trace on a    *)
(* command list, as in check and test of main.rs.                           *)

InitEval ==
    /\ pc = "start"
    /\ file_config \in {None} \cup {Some(f) : f \in FileConfigs}
    /\ profile_store = ProfileFiles
    /\ config = DefaultConfig
    /\ cwd = Some("/tmp")
    /\ input = <<>>
    /\ ast = NoProgram
    /\ parsed = Ok(<<>>)
    /\ commands \in InjectiveSeqs(EvalCommands, MaxCmds)
    /\ decision = Allow
    /\ matched_rule = None
    /\ stdout = <<>>
    /\ exit_code = None
    /\ rule = NoRule
    /\ command = NoCommand
    /\ matched = FALSE
    /\ scan = NoScan

\* Config::load()?  (main.rs 53, 146)
LoadConfig ==
    /\ pc = "start"
    /\ LET r == load(file_config, profile_store) IN
        IF r.ok
        THEN /\ config' = r.config
             /\ pc' = "loaded"
             /\ exit_code' = exit_code
        ELSE /\ config' = config
             /\ pc' = "failed"
             /\ exit_code' = Some(1)
    /\ UNCHANGED <<scan, file_config, profile_store, cwd, input, ast, parsed, commands,
                   decision, matched_rule, stdout, rule, command, matched>>

\* the decision and the rule that the evaluator returned
Evaluated(r) ==
    /\ decision' = r[1]
    /\ matched_rule' = r[2]

\* evaluator.evaluate_all_with_trace(&parsed_commands)  (main.rs 58, 151)
EvaluateAll ==
    /\ pc = "loaded"
    /\ Evaluated(evaluate_all_with_trace(config, commands, cwd))
    /\ pc' = "evaluated"
    /\ UNCHANGED <<scan, file_config, profile_store, config, cwd, input, ast, parsed,
                   commands, stdout, exit_code, rule, command, matched>>

\* evaluator.evaluate_with_trace(&command): the public single-command entry
\* (evaluator.rs 68-77)
EvaluateSingle ==
    /\ pc = "loaded"
    /\ \E c \in EvalCommands :
        LET r == evaluate_single_with_trace(config, c, cwd) IN
        /\ command' = c
        /\ decision' = r[1]
        /\ matched_rule' = r[2]
    /\ pc' = "evaluated_single"
    /\ UNCHANGED <<scan, file_config, profile_store, config, cwd, input, ast, parsed,
                   commands, stdout, exit_code, rule, matched>>

NextEval == LoadConfig \/ EvaluateAll \/ EvaluateSingle

SpecEval == InitEval /\ [][NextEval]_vars

-----------------------------------------------------------------------------
(* The matcher run: RuleMatcher::matches on one rule and one command *)

MaxArgWords == 3

SubcommandConds ==
    {[program |-> p, subcommands |-> sc, subcommands_exact |-> e] :
        p \in {None, Some("git")},
        sc \in {<<>>, <<"remote">>, <<"remote", "add">>, <<"add">>},
        e \in BOOLEAN}

OtherConds ==
    LET none == [args_match |-> None, args_regex |-> None,
                 flags_present |-> <<>>, flags_absent |-> <<>>,
                 working_dir |-> None]
    IN {none,
        [none EXCEPT !.flags_present = <<"-r">>],
        [none EXCEPT !.flags_absent = <<"-f">>],
        [none EXCEPT !.flags_present = <<"-r", "-v">>],
        [none EXCEPT !.flags_absent = <<"-v", "-f">>],
        [none EXCEPT !.args_match = Some("rig")],
        [none EXCEPT !.args_regex = Some("(")],
        [none EXCEPT !.args_regex = Some("rig")],
        [none EXCEPT !.working_dir = Some("/tmp")],
        [none EXCEPT !.working_dir = Some("[")]}

MatchRules ==
    {[program |-> s.program, subcommands |-> s.subcommands,
      subcommands_exact |-> s.subcommands_exact,
      args_match |-> o.args_match, args_regex |-> o.args_regex,
      flags_present |-> o.flags_present, flags_absent |-> o.flags_absent,
      working_dir |-> o.working_dir,
      action |-> "Deny", message |-> None] :
        s \in SubcommandConds, o \in OtherConds}

MatchCommands ==
    {Cmd(<<p>> \o ws) :
        p \in {"git", "rm"},
        ws \in BoundedSeqs({"remote", "add", "origin", "-rf"}, MaxArgWords)}

InitMatch ==
    /\ pc = "start"
    /\ file_config = None
    /\ profile_store = ProfileFiles
    /\ config = DefaultConfig
    /\ cwd \in {None, Some("/tmp"), Some("/home")}
    /\ input = <<>>
    /\ ast = NoProgram
    /\ parsed = Ok(<<>>)
    /\ commands = <<>>
    /\ decision = Allow
    /\ matched_rule = None
    /\ stdout = <<>>
    /\ exit_code = None
    /\ rule \in MatchRules
    /\ command \in MatchCommands
    /\ matched = FALSE
    /\ scan = NoScan

\* RuleMatcher::matches(&rule, &command)
Match ==
    /\ pc = "start"
    /\ matched' = matches(rule, command, cwd)
    /\ pc' = "matched"
    /\ UNCHANGED <<scan, file_config, profile_store, config, cwd, input, ast, parsed,
                   commands, decision, matched_rule, stdout, exit_code, rule,
                   command>>

NextMatch == Match

SpecMatch == InitMatch /\ [][NextMatch]_vars

-----------------------------------------------------------------------------
(* The analyzer runs: SemanticAnalyzer::analyze on a program and the words  *)
(* after it, as extract_simple_command calls it (brush_adapter.rs 264-282). *)

MaxScanWords == 3

\* the words after the program: known sub-command tokens of git, a word
\* that is none, long and short flag words, a lone dash and a dash with a
\* digit
ScanWords ==
    {"remote", "add", "rm", "origin", "-rf", "--force", "--message=hello",
     "-", "-9"}

\* the word lists of the runs: a program of the table or one that is not in
\* it, then the words
ScanInputs ==
    {<<p>> \o ws : p \in {"git", "rm"}, ws \in BoundedSeqs(ScanWords, MaxScanWords)}

InitAnalyze ==
    /\ pc = "start"
    /\ file_config = None
    /\ profile_store = ProfileFiles
    /\ config = DefaultConfig
    /\ cwd = Some("/tmp")
    /\ input \in ScanInputs
    /\ ast = NoProgram
    /\ parsed = Ok(<<>>)
    /\ commands = <<>>
    /\ decision = Allow
    /\ matched_rule = None
    /\ stdout = <<>>
    /\ exit_code = None
    /\ rule = NoRule
    /\ command = NoCommand
    /\ matched = FALSE
    /\ scan = NoScan

\* analyzer.analyze(&program, &remaining) and the ParsedCommand built from
\* its result
Analyze ==
    /\ pc = "start"
    /\ command' = Cmd(input)
    /\ pc' = "analyzed"
    /\ UNCHANGED <<scan, file_config, profile_store, config, cwd, input, ast, parsed,
                   commands, decision, matched_rule, stdout, exit_code, rule,
                   matched>>

NextAnalyze == Analyze

SpecAnalyze == InitAnalyze /\ [][NextAnalyze]_vars

-----------------------------------------------------------------------------
(* The scan runs: the loop of SemanticAnalyzer::analyze (semantic.rs       *)
(* 583-606), one word at a time, from its locals as they start to the      *)
(* tuple it returns.                                                        *)

InitScan ==
    /\ pc = "scanning"
    /\ file_config = None
    /\ profile_store = ProfileFiles
    /\ config = DefaultConfig
    /\ cwd = Some("/tmp")
    /\ input \in ScanInputs
    /\ ast = NoProgram
    /\ parsed = Ok(<<>>)
    /\ commands = <<>>
    /\ decision = Allow
    /\ matched_rule = None
    /\ stdout = <<>>
    /\ exit_code = None
    /\ rule = NoRule
    /\ command = NoCommand
    /\ matched = FALSE
    /\ scan = [st |-> AnalyzeStart, rest |-> Tail(input)]

\* one turn of `for word in remaining`
ScanWord ==
    /\ pc = "scanning"
    /\ scan.rest # <<>>
    /\ scan' = [st |-> AnalyzeStep(input[1], scan.st, Head(scan.rest)),
                rest |-> Tail(scan.rest)]
    /\ UNCHANGED <<pc, file_config, profile_store, config, cwd, input, ast,
                   parsed, commands, decision, matched_rule, stdout, exit_code,
                   rule, command, matched>>

\* the return of (subcommands, flags, args), semantic.rs 608, and the
\* ParsedCommand built from it (brush_adapter.rs 271-282)
ScanReturn ==
    /\ pc = "scanning"
    /\ scan.rest = <<>>
    /\ command' = [Cmd(<<input[1]>>) EXCEPT !.raw = input,
                                            !.subcommands = scan.st.subcommands,
                                            !.flags = scan.st.flags,
                                            !.args = scan.st.args]
    /\ pc' = "analyzed"
    /\ UNCHANGED <<scan, file_config, profile_store, config, cwd, input, ast,
                   parsed, commands, decision, matched_rule, stdout, exit_code,
                   rule, matched>>

NextScan == ScanWord \/ ScanReturn

SpecScan == InitScan /\ [][NextScan]_vars

-----------------------------------------------------------------------------
(* The parse runs: parse_with_brush on a command string, then              *)
(* evaluate_all on its result, under a configuration built directly (as    *)
(* the tests of evaluator.rs build it).                                     *)

MaxLexemes == 3

\* the lexemes of the command strings: words (one quoted, one with a quote
\* left open, one that is two quotes, one an assignment), operators, and the
\* empty lexeme
Lexemes ==
    {"ls", "rm", "A=1", "'rm'", "'rm", "''", "|", "&&", "||", ";", "\n", ""}

\* the texts of simple commands, one of them without a program word
SimpleTexts ==
    {<<"ls">>, <<"rm", "ls">>, <<"A=1", "'rm'">>, <<"ls", "A=1">>, <<"A=1">>}

Joiners == {"|", "&&", "||", ";"}

RECURSIVE JoinedTexts(_)
\* k simple commands joined by operators
JoinedTexts(k) ==
    IF k = 1 THEN SimpleTexts
    ELSE {j \o <<op>> \o c : j \in JoinedTexts(k - 1), op \in Joiners, c \in SimpleTexts}

\* the command strings of at most MaxLexemes lexemes
LexemeTexts == {t \in BoundedSeqs(Lexemes, MaxLexemes) : QuotesWithinLexemes(t)}

ParseInputs == LexemeTexts \cup UNION {JoinedTexts(k) : k \in 1..MaxCmds}

\* a configuration whose only rule denies program p, the default being Allow
GuardConfig(p) ==
    [DefaultConfig EXCEPT
        !.settings.default_action = "Allow",
        !.rules = <<ProgRule(Some(p), <<>>, FALSE, "Deny", Some("blocked"))>>]

InitParse ==
    /\ pc = "start"
    /\ file_config = None
    /\ profile_store = ProfileFiles
    /\ config \in {GuardConfig("rm"), GuardConfig("ls")}
    /\ cwd = Some("/tmp")
    /\ input \in ParseInputs
    /\ ast = NoProgram
    /\ parsed = Ok(<<>>)
    /\ commands = <<>>
    /\ decision = Allow
    /\ matched_rule = None
    /\ stdout = <<>>
    /\ exit_code = None
    /\ rule = NoRule
    /\ command = NoCommand
    /\ matched = FALSE
    /\ scan = NoScan

\* the program parse_tokens gave for the tokens t, prev when there is none
ProgramOr(t, prev) == IF t.ok THEN parse_tokens(t.value) ELSE Err(prev)

ProgramOrPrev(p, prev) == IF p.ok THEN p.value ELSE prev

\* what running parse_with_brush(text) with result r leaves: the program
\* when the tokens parsed, the result, and the command list when it is Ok
ParseEffect(text, r) ==
    /\ ast' = ProgramOrPrev(ProgramOr(tokenize_str(text), ast), ast)
    /\ parsed' = r
    /\ commands' = IF r.ok THEN r.value ELSE commands

\* parse_with_brush(input)
ParseWithBrush ==
    /\ pc = "start"
    /\ LET r == parse_with_brush(input) IN
        /\ ParseEffect(input, r)
        /\ pc' = IF r.ok THEN "parsed" ELSE "parse_failed"
    /\ UNCHANGED <<scan, file_config, profile_store, config, cwd, input, decision,
                   matched_rule, stdout, exit_code, rule, command, matched>>

\* evaluator.evaluate_all_with_trace(&parsed_commands) on the parsed list
EvaluateParsed ==
    /\ pc = "parsed"
    /\ Evaluated(evaluate_all_with_trace(config, commands, cwd))
    /\ pc' = "evaluated"
    /\ UNCHANGED <<scan, file_config, profile_store, config, cwd, input, ast, parsed,
                   commands, stdout, exit_code, rule, command, matched>>

NextParse == ParseWithBrush \/ EvaluateParsed

SpecParse == InitParse /\ [][NextParse]_vars

-----------------------------------------------------------------------------
(* The check runs: check of main.rs from the command string on, with the   *)
(* exit of main.  The session log is left out: a failure to write it is    *)
(* reported and changes nothing else.  The output is the plain one (no     *)
(* --json).                                                                 *)

\* ParsedCommand::parse_all, which main.rs calls: every command of the
\* string, by the extractor
parse_all(text) == parse_with_brush(text)

\* the bashguard.toml files of the check runs: none, one rule denying rm,
\* a default of Deny without rules, and one naming a profile that has no file
CheckFileConfigs ==
    {GuardConfig("rm"),
     [DefaultConfig EXCEPT !.settings.default_action = "Deny"],
     [DefaultConfig EXCEPT !.profiles.builtins = <<"missing">>]}

InitCheck ==
    /\ pc = "start"
    /\ file_config \in {None} \cup {Some(f) : f \in CheckFileConfigs}
    /\ profile_store = ProfileFiles
    /\ config = DefaultConfig
    /\ cwd = Some("/tmp")
    /\ input \in LexemeTexts
    /\ ast = NoProgram
    /\ parsed = Ok(<<>>)
    /\ commands = <<>>
    /\ decision = Allow
    /\ matched_rule = None
    /\ stdout = <<>>
    /\ exit_code = None
    /\ rule = NoRule
    /\ command = NoCommand
    /\ matched = FALSE
    /\ scan = NoScan

\* ParsedCommand::parse_all(command_str)?  (main.rs 55); on Err main prints
\* the error to stderr and exits with 1 (main.rs 28-31)
ParseAll ==
    /\ pc = "loaded"
    /\ LET r == parse_all(input) IN
        /\ ParseEffect(input, r)
        /\ pc' = IF r.ok THEN "parsed" ELSE "failed"
        /\ exit_code' = IF r.ok THEN exit_code ELSE Some(1)
    /\ UNCHANGED <<scan, file_config, profile_store, config, cwd, input, decision,
                   matched_rule, stdout, rule, command, matched>>

\* the line check prints for a decision, main.rs 80-84
DecisionLine(d) ==
    CASE d.kind = "Allow" -> "ALLOW"
      [] d.kind = "Deny" -> "DENY: " \o d.message
      [] d.kind = "Prompt" -> "PROMPT: " \o d.message

\* println! of the decision and Ok(()), main.rs 72-88
PrintDecision ==
    /\ pc = "evaluated"
    /\ stdout' = Append(stdout, DecisionLine(decision))
    /\ exit_code' = Some(0)
    /\ pc' = "done"
    /\ UNCHANGED <<scan, file_config, profile_store, config, cwd, input, ast, parsed,
                   commands, decision, matched_rule, rule, command, matched>>

NextCheck == LoadConfig \/ ParseAll \/ EvaluateParsed \/ PrintDecision

SpecCheck == InitCheck /\ [][NextCheck]_vars

-----------------------------------------------------------------------------
(* The repeated runs: the same command string evaluated again and again     *)
(* under the same configuration (parse_with_brush, evaluate_all_with_trace, *)
(* and the line printed for the decision), the working directory of the     *)
(* process changing in between.                                              *)

MaxRuns == 3

\* a rule on rm that holds in /tmp only
DirRule ==
    [ProgRule(Some("rm"), <<>>, FALSE, "Deny", Some("not here"))
        EXCEPT !.working_dir = Some("/tmp")]

\* the configurations of the repeated runs: one rule denying rm; the rule
\* bound to /tmp before a rule prompting for rm; no rule, default Prompt
RepeatConfigs ==
    {GuardConfig("rm"),
     [DefaultConfig EXCEPT
        !.settings.default_action = "Allow",
        !.rules = <<DirRule, ProgRule(Some("rm"), <<>>, FALSE, "Prompt", None)>>],
     DefaultConfig}

RepeatInputs ==
    {<<>>, <<"ls">>, <<"rm">>, <<"ls", "|", "rm">>, <<"rm", "&&", "ls">>,
     <<"ls", "|">>}

\* what std::env::current_dir() can return
RepeatDirs == {None, Some("/tmp"), Some("/home")}

InitRepeat ==
    /\ pc = "start"
    /\ file_config = None
    /\ profile_store = ProfileFiles
    /\ config \in RepeatConfigs
    /\ cwd \in RepeatDirs
    /\ input \in RepeatInputs
    /\ ast = NoProgram
    /\ parsed = Ok(<<>>)
    /\ commands = <<>>
    /\ decision = Allow
    /\ matched_rule = None
    /\ stdout = <<>>
    /\ exit_code = None
    /\ rule = NoRule
    /\ command = NoCommand
    /\ matched = FALSE
    /\ scan = NoScan

\* the result of evaluate_all_with_trace on the parsed list r; without a
\* list nothing is evaluated
EvaluatedOrKept(r) ==
    IF r.ok THEN evaluate_all_with_trace(config, r.value, cwd)
    ELSE <<decision, matched_rule>>

\* what a run leaves, r being the result of the parse and e of the
\* evaluation
RunEffect(r, e) ==
    /\ ParseEffect(input, r)
    /\ decision' = e[1]
    /\ matched_rule' = e[2]
    /\ stdout' = IF r.ok THEN Append(stdout, DecisionLine(e[1])) ELSE stdout
    /\ pc' = IF r.ok THEN "evaluated" ELSE "parse_failed"

RunWith(r) == RunEffect(r, EvaluatedOrKept(r))

\* one more evaluation of the command string
RunAgain ==
    /\ pc \in {"start", "evaluated", "moved"}
    /\ Len(stdout) < MaxRuns
    /\ RunWith(parse_with_brush(input))
    /\ UNCHANGED <<scan, file_config, profile_store, config, cwd, input, exit_code,
                   rule, command, matched>>

\* the working directory of the process becomes another one, or is lost,
\* between two evaluations
ChangeDir ==
    /\ pc \in {"evaluated", "moved"}
    /\ cwd' \in RepeatDirs \ {cwd}
    /\ pc' = "moved"
    /\ UNCHANGED <<scan, file_config, profile_store, config, input, ast, parsed,
                   commands, decision, matched_rule, stdout, exit_code, rule,
                   command, matched>>

NextRepeat == RunAgain \/ ChangeDir

SpecRepeat == InitRepeat /\ [][NextRepeat]_vars

-----------------------------------------------------------------------------
(* The single-command parse runs: ParsedCommand::parse (command.rs 33-109) *)
(* over the tokens of Lexer::tokenize (lexer.rs 40-120), then              *)
(* Evaluator::evaluate_with_trace on the one command it returns.  The      *)
(* command strings are lexemes joined by single spaces; none of them holds *)
(* a redirection, a double quote, a backslash or a lone "&".               *)

Digits == {"0", "1", "2", "3", "4", "5", "6", "7", "8", "9"}

\* char::is_alphanumeric, on the characters the vocabulary uses
IsAlphanumeric(c) == c \in Letters \cup Digits

\* is_valid_var_name, lexer.rs 224-237
is_valid_var_name(cs) ==
    /\ cs # <<>>
    /\ IsAlphabetic(cs[1]) \/ cs[1] = "_"
    /\ \A i \in 2..Len(cs) : IsAlphanumeric(cs[i]) \/ cs[i] = "_"

\* Token, lexer.rs 5-27: Word(word), EnvVar(key, value) and the operators
WordToken(w) == [type |-> "Word", key |-> "", value |-> w]
EnvVarToken(k, v) == [type |-> "EnvVar", key |-> k, value |-> v]
OperatorToken(t) == [type |-> t, key |-> "", value |-> ""]

\* the token of an operator lexeme, lexer.rs 52-86
OperatorTokenOf(l) ==
    CASE l = "|" -> OperatorToken("Pipe")
      [] l = "||" -> OperatorToken("Or")
      [] l = "&&" -> OperatorToken("And")
      [] l = ";" -> OperatorToken("Semicolon")

\* read_single_quoted on a lexeme that starts with a quote: the characters
\* up to the next quote, an error when there is none (the strings of these
\* runs have no quote after a lexeme that leaves one open)
read_single_quoted(cs) ==
    LET body == Tail(cs) IN
    IF \E i \in 1..Len(body) : body[i] = "'"
    THEN Ok(JoinChars(SubSeq(body, 1,
                (CHOOSE i \in 1..Len(body) :
                    body[i] = "'" /\ \A j \in 1..(i - 1) : body[j] # "'") - 1)))
    ELSE Err("Unterminated string")

\* the token of a word read by read_word, lexer.rs 97-114: an assignment
\* while every token before it is one
WordTokenOf(tokens, l) ==
    LET cs == CharsOf(l) name == BeforeEq(cs) IN
    IF /\ \A i \in 1..Len(tokens) : tokens[i].type = "EnvVar"
       /\ \E i \in 1..Len(cs) : cs[i] = "="
       /\ Head(cs) # "="
       /\ is_valid_var_name(name)
    THEN EnvVarToken(JoinChars(name), JoinChars(SubSeq(cs, Len(name) + 2, Len(cs))))
    ELSE WordToken(l)

\* the tokens after a quoted word
AfterQuoted(tokens, w) == IF w.ok THEN Ok(Append(tokens, WordToken(w.value))) ELSE w

\* one turn of the loop of tokenize on the next lexeme
LexStep(tokens, l) ==
    IF l = "" \/ l = "\n" THEN Ok(tokens)
    ELSE IF l \in {"|", "||", "&&", ";"} THEN Ok(Append(tokens, OperatorTokenOf(l)))
    ELSE IF Head(CharsOf(l)) = "'" THEN AfterQuoted(tokens, read_single_quoted(CharsOf(l)))
    ELSE Ok(Append(tokens, WordTokenOf(tokens, l)))

RECURSIVE LexFrom(_, _)
\* the loop of tokenize, lexer.rs 43-117
LexFrom(r, lexemes) ==
    IF ~r.ok \/ lexemes = <<>> THEN r
    ELSE LexFrom(LexStep(r.value, Head(lexemes)), Tail(lexemes))

\* Lexer::tokenize
tokenize(lexemes) == LexFrom(Ok(<<>>), lexemes)

RECURSIVE LeadingEnvVars(_)
\* cmd_start, command.rs 43-52: the number of leading EnvVar tokens
LeadingEnvVars(tokens) ==
    IF tokens = <<>> \/ Head(tokens).type # "EnvVar" THEN 0
    ELSE 1 + LeadingEnvVars(Tail(tokens))

RECURSIVE EnvVarsOf(_, _)
\* env_vars, command.rs 42-52
EnvVarsOf(tokens, m) ==
    IF tokens = <<>> \/ Head(tokens).type # "EnvVar" THEN m
    ELSE EnvVarsOf(Tail(tokens), MapInsert(m, Head(tokens).key, Head(tokens).value))

RECURSIVE FirstWords(_)
\* command.rs 64-86: the Word tokens before the first operator
FirstWords(tokens) ==
    IF tokens = <<>> \/ Head(tokens).type \in {"Pipe", "And", "Or", "Semicolon"}
    THEN <<>>
    ELSE (IF Head(tokens).type = "Word" THEN <<Head(tokens).value>> ELSE <<>>)
         \o FirstWords(Tail(tokens))

\* ParsedCommand, command.rs 12-29, as built at command.rs 99-108
SingleCommand(raw, words, is_piped, env_vars, a) ==
    [raw |-> raw,
     program |-> words[1],
     subcommands |-> a.subcommands,
     args |-> a.args,
     flags |-> a.flags,
     is_piped |-> is_piped,
     has_redirect |-> FALSE,
     env_vars |-> env_vars]

\* command.rs 54-108, from the words of the first command
ParseWords(raw, tokens, words) ==
    IF words = <<>> THEN Err("Empty command")
    ELSE Ok(SingleCommand(raw, words,
                          \E i \in 1..Len(tokens) : tokens[i].type = "Pipe",
                          EnvVarsOf(tokens, {}),
                          analyze(words[1], Tail(words))))

\* command.rs 35-90, from the result of tokenize
ParseTokens(raw, t) ==
    IF ~t.ok THEN t
    ELSE IF t.value = <<>> THEN Err("Empty command")
    ELSE ParseWords(raw, t.value,
                    FirstWords(SubSeq(t.value, LeadingEnvVars(t.value) + 1,
                                      Len(t.value))))

\* ParsedCommand::parse
parse(command_) == ParseTokens(command_, tokenize(command_))

\* a lexeme that leaves a quote open is followed by no lexeme with a quote
OpenQuoteIsLast(lexemes) ==
    \A i \in 1..Len(lexemes) :
        QuoteAtEnd(CharsOf(lexemes[i]), "") # ""
            => \A j \in (i + 1)..Len(lexemes) :
                    \A k \in 1..Len(CharsOf(lexemes[j])) : CharsOf(lexemes[j])[k] # "'"

\* the command strings of the single-command parse runs
SingleInputs == {t \in ParseInputs : OpenQuoteIsLast(t)}

InitSingle ==
    /\ pc = "start"
    /\ file_config = None
    /\ profile_store = ProfileFiles
    /\ config \in {GuardConfig("rm"), GuardConfig("ls")}
    /\ cwd = Some("/tmp")
    /\ input \in SingleInputs
    /\ ast = NoProgram
    /\ parsed = Ok(<<>>)
    /\ commands = <<>>
    /\ decision = Allow
    /\ matched_rule = None
    /\ stdout = <<>>
    /\ exit_code = None
    /\ rule = NoRule
    /\ command = NoCommand
    /\ matched = FALSE
    /\ scan = NoScan

\* the state after ParsedCommand::parse gave r
ParsedSingle(r) ==
    /\ parsed' = r
    /\ command' = IF r.ok THEN r.value ELSE command
    /\ pc' = IF r.ok THEN "parsed_single" ELSE "parse_failed"

\* let cmd = ParsedCommand::parse(input)?
ParseSingle ==
    /\ pc = "start"
    /\ ParsedSingle(parse(input))
    /\ UNCHANGED <<scan, file_config, profile_store, config, cwd, input, ast,
                   commands, decision, matched_rule, stdout, exit_code, rule,
                   matched>>

\* the state after evaluate_with_trace gave e
EvaluatedSingle(e) ==
    /\ decision' = e[1]
    /\ matched_rule' = e[2]
    /\ pc' = "evaluated_single"

\* evaluator.evaluate_with_trace(&cmd), evaluator.rs 75-77
EvaluateOne ==
    /\ pc = "parsed_single"
    /\ EvaluatedSingle(evaluate_single_with_trace(config, command, cwd))
    /\ UNCHANGED <<scan, file_config, profile_store, config, cwd, input, ast, parsed,
                   commands, stdout, exit_code, rule, command, matched>>

NextSingle == ParseSingle \/ EvaluateOne

SpecSingle == InitSingle /\ [][NextSingle]_vars

-----------------------------------------------------------------------------
(* The OpenCode plugin runs: the "tool.execute.before" handler of the      *)
(* plugin that init installs (OPENCODE_PLUGIN_TEMPLATE, init.rs 200-241),  *)
(* for a call of the bash tool, around `bashguard check --json --format    *)
(* opencode` (main.rs 17-32, 34-89).  A JSON text is the sequence of its   *)
(* tokens.                                                                  *)

\* format_opencode_output, main.rs 117-125, then serde_json::to_string
format_opencode_output(d) ==
    CASE d.kind = "Allow" -> <<"{", "allow", ":", "true", "}">>
      [] d.kind = "Deny" -> <<"{", "abort", ":", d.message, "}">>
      [] d.kind = "Prompt" ->
            <<"{", "abort", ":", "[Requires approval] " \o d.message, "}">>

\* JSON.parse of the output of check, for an object of one member
JsonParse(text) ==
    IF Len(text) = 5 /\ text[1] = "{" /\ text[3] = ":" /\ text[5] = "}"
    THEN Ok([key |-> text[2], value |-> text[4]])
    ELSE Err("SyntaxError")

\* decision.abort is truthy: the member is there and is not the empty string
HasAbort(obj) == obj.key = "abort" /\ obj.value # ""

\* The handler is called for a bash tool call with this command.
InitPlugin ==
    /\ pc = "called"
    /\ file_config \in {None} \cup {Some(f) : f \in CheckFileConfigs}
    /\ profile_store = ProfileFiles
    /\ config = DefaultConfig
    /\ cwd = Some("/tmp")
    /\ input \in LexemeTexts
    /\ ast = NoProgram
    /\ parsed = Ok(<<>>)
    /\ commands = <<>>
    /\ decision = Allow
    /\ matched_rule = None
    /\ stdout = <<>>
    /\ exit_code = None
    /\ rule = NoRule
    /\ command = NoCommand
    /\ matched = FALSE
    /\ scan = NoScan

\* init.rs 207-221: without a command the handler returns and the tool
\* runs; otherwise execSync starts check
PluginCall ==
    /\ pc = "called"
    /\ pc' = IF TextChars(input) = <<>> THEN "tool_runs" ELSE "start"
    /\ UNCHANGED <<scan, file_config, profile_store, config, cwd, input, ast, parsed,
                   commands, decision, matched_rule, stdout, exit_code, rule,
                   command, matched>>

\* println! of the OpenCode output and Ok(()), main.rs 72-77, 88
PrintOpenCode ==
    /\ pc = "evaluated"
    /\ stdout' = format_opencode_output(decision)
    /\ exit_code' = Some(0)
    /\ pc' = "done"
    /\ UNCHANGED <<scan, file_config, profile_store, config, cwd, input, ast, parsed,
                   commands, decision, matched_rule, rule, command, matched>>

\* what the handler does with the outcome of execSync, init.rs 212-235:
\* execSync throws for an exit status other than 0, JSON.parse for a text
\* that is no JSON; an error whose message does not start with "[bashguard]"
\* is logged and the handler returns
PluginOutcome(code, text) ==
    IF code # Some(0) THEN "tool_runs"
    ELSE IF ~JsonParse(text).ok THEN "tool_runs"
    ELSE IF HasAbort(JsonParse(text).value) THEN "tool_aborted"
    ELSE "tool_runs"

\* the rest of the handler, once check has exited
PluginReceive ==
    /\ pc \in {"done", "failed"}
    /\ pc' = PluginOutcome(exit_code, stdout)
    /\ UNCHANGED <<scan, file_config, profile_store, config, cwd, input, ast, parsed,
                   commands, decision, matched_rule, stdout, exit_code, rule,
                   command, matched>>

NextPlugin ==
    PluginCall \/ LoadConfig \/ ParseAll \/ EvaluateParsed \/ PrintOpenCode
    \/ PluginReceive

SpecPlugin == InitPlugin /\ [][NextPlugin]_vars

-----------------------------------------------------------------------------
(* The extraction runs: the walk of parse_with_brush (brush_adapter.rs     *)
(* 28-41) over the Program that parse_tokens returned for a command string *)
(* with compound commands.  The run starts from the program and its text.  *)

MaxNesting == 2

Subshell(list) == Compound([kind |-> "Subshell", list |-> list])
BraceGroup(list) == Compound([kind |-> "BraceGroup", list |-> list])
ForClause(body) ==
    Compound([kind |-> "ForClause", variable |-> "x", values |-> <<"main">>,
              body |-> body])
ArithmeticForClause(body) == Compound([kind |-> "ArithmeticForClause", body |-> body])
WhileClause(condition, body) ==
    Compound([kind |-> "WhileClause", condition |-> condition, body |-> body])
UntilClause(condition, body) ==
    Compound([kind |-> "UntilClause", condition |-> condition, body |-> body])
IfClause(condition, then, elses) ==
    Compound([kind |-> "IfClause", condition |-> condition, then |-> then,
              elses |-> elses])
ElseClause(condition, body) == [condition |-> condition, body |-> body]
CaseClause(cases) == Compound([kind |-> "CaseClause", value |-> "main", cases |-> cases])
CaseItem(pattern, cmd) == [patterns |-> <<pattern>>, cmd |-> cmd]
Arithmetic == Compound([kind |-> "Arithmetic", expr |-> "1"])
ExtendedTest == [type |-> "ExtendedTest", words |-> <<"-f", "main">>]
Function(body) == [type |-> "Function", fname |-> "f", body |-> body]

Ls == Simple(<<>>, Some("ls"), <<>>)
RmRf == Simple(<<>>, Some("rm"), <<WordItem("-rf")>>)
GitPush == Simple(<<AssignItem("A", "1")>>, Some("git"), <<WordItem("push")>>)

\* the commands without a command inside: simple commands (one an
\* assignment alone, one with a process substitution), an extended test, an
\* arithmetic command, a function definition
Atoms ==
    {Ls, RmRf, GitPush,
     Simple(<<AssignItem("A", "1")>>, None, <<>>),
     Simple(<<>>, Some("ls"), <<ProcSubstItem("<(", ListOf(RmRf))>>),
     ExtendedTest, Arithmetic, Function(BraceGroup(ListOf(RmRf)))}

\* the commands that hold command c: each kind of compound command, with c
\* at each place a command list can stand
Around(c) ==
    {Subshell(ListOf(c)),
     BraceGroup(ListOf(c)),
     Subshell(ListOf(c) \o ListOf(Ls)),
     BraceGroup(<<ListItem(AndOrList(Pipeline(<<Ls>>),
                    <<[op |-> "And", pipeline |-> Pipeline(<<c, RmRf>>)]>>), ";")>>),
     ForClause(ListOf(c)),
     ArithmeticForClause(ListOf(c)),
     WhileClause(ListOf(c), ListOf(Ls)),
     WhileClause(ListOf(Ls), ListOf(c)),
     UntilClause(ListOf(c), ListOf(RmRf)),
     UntilClause(ListOf(RmRf), ListOf(c)),
     IfClause(ListOf(c), ListOf(Ls), None),
     IfClause(ListOf(Ls), ListOf(c), None),
     IfClause(ListOf(Ls), ListOf(RmRf),
              Some(<<ElseClause(Some(ListOf(c)), ListOf(GitPush)),
                     ElseClause(None, ListOf(Ls))>>)),
     IfClause(ListOf(Ls), ListOf(RmRf),
              Some(<<ElseClause(Some(ListOf(GitPush)), ListOf(c))>>)),
     IfClause(ListOf(Ls), ListOf(RmRf), Some(<<ElseClause(None, ListOf(c))>>)),
     CaseClause(<<CaseItem("main", Some(ListOf(c))), CaseItem("*", None),
                  CaseItem("-", Some(ListOf(Ls)))>>),
     Function(BraceGroup(ListOf(c)))}

RECURSIVE Nested(_)
\* the commands nested at most d deep
Nested(d) ==
    IF d = 0 THEN Atoms
    ELSE Nested(d - 1) \cup UNION {Around(c) : c \in Nested(d - 1)}

MaxPrefixItems == 1
MaxSuffixItems == 2

\* the items before the program word: an assignment, one whose value is a
\* command substitution, a redirection, a process substitution
PrefixItems ==
    {AssignItem("A", "1"), AssignItem("A", "$(date)"),
     RedirectItem(">", "out"), ProcSubstItem("<(", ListOf(RmRf))}

\* the items after the program word: words (with a parameter, with a command
\* substitution, quoted, with a "$" that nothing follows), redirections, an
\* assignment, a process substitution
SuffixItems ==
    {WordItem("-rf"), WordItem("$HOME"), WordItem("'$HOME'"),
     WordItem("$(date)"), WordItem("\"$(date)\""), WordItem("$HOME$(date)"),
     WordItem(BackquotedDate), WordItem("a$"), WordItem("$" \o Backquote),
     RedirectItem(">>", "out"), RedirectItem("<", "$HOME"),
     AssignItem("A", "$HOME"), ProcSubstItem(">(", ListOf(RmRf))}

\* the simple commands with up to MaxPrefixItems items before and
\* MaxSuffixItems items after the program word; without a program word
\* there are items before it and none after
SimpleCommands ==
    {Simple(pre, Some(w), suf) :
        pre \in BoundedSeqs(PrefixItems, MaxPrefixItems),
        w \in {"ls", "git", "$HOME"},
        suf \in BoundedSeqs(SuffixItems, MaxSuffixItems)}
    \cup {Simple(pre, None, <<>>) :
            pre \in BoundedSeqs(PrefixItems, MaxPrefixItems) \ {<<>>}}

\* the programs of the runs: none, one command, a command and a second
\* complete command after it, or one simple command with its items
ExtractPrograms ==
    {NoProgram}
    \cup {[complete_commands |-> <<ListOf(c)>>] : c \in SimpleCommands}
    \cup {[complete_commands |-> <<ListOf(c)>>] : c \in Nested(MaxNesting)}
    \cup {[complete_commands |-> <<ListOf(c), ListOf(GitPush)>>] : c \in Nested(1)}

RECURSIVE TextOfList(_)
RECURSIVE TextOfAdditional(_)
RECURSIVE TextOfSeq(_)
RECURSIVE TextOfCommand(_)
RECURSIVE TextOfItems(_)
RECURSIVE TextOfCases(_)
RECURSIVE TextOfElses(_)
RECURSIVE TextOfLists(_)

\* The command string a program was parsed from, as lexemes: every and-or
\* list ends with ";", complete commands are separated by newlines.

TextOfList(list) ==
    IF list = <<>> THEN <<>>
    ELSE TextOfSeq(Head(list).and_or.first.seq)
         \o TextOfAdditional(Head(list).and_or.additional)
         \o <<";">> \o TextOfList(Tail(list))

TextOfAdditional(additional) ==
    IF additional = <<>> THEN <<>>
    ELSE <<IF Head(additional).op = "And" THEN "&&" ELSE "||">>
         \o TextOfSeq(Head(additional).pipeline.seq)
         \o TextOfAdditional(Tail(additional))

TextOfSeq(seq) ==
    IF seq = <<>> THEN <<>>
    ELSE TextOfCommand(Head(seq))
         \o (IF Tail(seq) = <<>> THEN <<>> ELSE <<"|">> \o TextOfSeq(Tail(seq)))

TextOfItems(items) ==
    IF items = <<>> THEN <<>>
    ELSE LET it == Head(items) IN
         (CASE it.kind = "AssignmentWord" -> <<it.name \o "=" \o it.value>>
            [] it.kind = "Word" -> <<it.value>>
            [] it.kind = "IoRedirect" -> <<it.op, it.target>>
            [] it.kind = "ProcessSubstitution" ->
                    <<it.op>> \o TextOfList(it.list) \o <<")">>)
         \o TextOfItems(Tail(items))

TextOfCases(cases) ==
    IF cases = <<>> THEN <<>>
    ELSE Head(cases).patterns \o <<")">>
         \o (IF IsSome(Head(cases).cmd) THEN TextOfList(Unwrap(Head(cases).cmd))
             ELSE <<>>)
         \o <<";;">> \o TextOfCases(Tail(cases))

TextOfElses(elses) ==
    IF elses = <<>> THEN <<>>
    ELSE (IF IsSome(Head(elses).condition)
          THEN <<"elif">> \o TextOfList(Unwrap(Head(elses).condition)) \o <<"then">>
          ELSE <<"else">>)
         \o TextOfList(Head(elses).body) \o TextOfElses(Tail(elses))

TextOfCommand(c) ==
    CASE c.type = "Simple" ->
            TextOfItems(c.simple.prefix) \o c.simple.word_or_name
            \o TextOfItems(c.simple.suffix)
      [] c.type = "ExtendedTest" -> <<"[[">> \o c.words \o <<"]]">>
      [] c.type = "Function" -> <<c.fname, "()">> \o TextOfCommand(c.body)
      [] c.type = "Compound" ->
            LET k == c.compound IN
            CASE k.kind = "Subshell" -> <<"(">> \o TextOfList(k.list) \o <<")">>
              [] k.kind = "BraceGroup" -> <<"{">> \o TextOfList(k.list) \o <<"}">>
              [] k.kind = "ForClause" ->
                    <<"for", k.variable, "in">> \o k.values \o <<";", "do">>
                    \o TextOfList(k.body) \o <<"done">>
              [] k.kind = "ArithmeticForClause" ->
                    <<"for", "((", ";", ";", "))", "do">>
                    \o TextOfList(k.body) \o <<"done">>
              [] k.kind = "WhileClause" ->
                    <<"while">> \o TextOfList(k.condition) \o <<"do">>
                    \o TextOfList(k.body) \o <<"done">>
              [] k.kind = "UntilClause" ->
                    <<"until">> \o TextOfList(k.condition) \o <<"do">>
                    \o TextOfList(k.body) \o <<"done">>
              [] k.kind = "IfClause" ->
                    <<"if">> \o TextOfList(k.condition) \o <<"then">>
                    \o TextOfList(k.then)
                    \o (IF IsSome(k.elses) THEN TextOfElses(Unwrap(k.elses)) ELSE <<>>)
                    \o <<"fi">>
              [] k.kind = "CaseClause" ->
                    <<"case", k.value, "in">> \o TextOfCases(k.cases) \o <<"esac">>
              [] k.kind = "Arithmetic" -> <<"((", k.expr, "))">>

TextOfLists(lists) ==
    IF lists = <<>> THEN <<>>
    ELSE TextOfList(Head(lists))
         \o (IF Tail(lists) = <<>> THEN <<>> ELSE <<"\n">> \o TextOfLists(Tail(lists)))

\* the command string of a program
TextOf(program) == TextOfLists(program.complete_commands)

InitExtract ==
    /\ pc = "start"
    /\ file_config = None
    /\ profile_store = ProfileFiles
    /\ config = DefaultConfig
    /\ cwd = Some("/tmp")
    /\ ast \in ExtractPrograms
    /\ input = TextOf(ast)
    /\ parsed = Ok(<<>>)
    /\ commands = <<>>
    /\ decision = Allow
    /\ matched_rule = None
    /\ stdout = <<>>
    /\ exit_code = None
    /\ rule = NoRule
    /\ command = NoCommand
    /\ matched = FALSE
    /\ scan = NoScan

\* the walk over program.complete_commands and the check of the result,
\* brush_adapter.rs 28-41
ExtractAll ==
    /\ pc = "start"
    /\ LET r == ExtractProgram(ast, input) IN
        /\ parsed' = r
        /\ commands' = IF r.ok THEN r.value ELSE commands
        /\ pc' = IF r.ok THEN "parsed" ELSE "parse_failed"
    /\ UNCHANGED <<scan, file_config, profile_store, config, cwd, input, ast, decision,
                   matched_rule, stdout, exit_code, rule, command, matched>>

NextExtract == ExtractAll

SpecExtract == InitExtract /\ [][NextExtract]_vars

-----------------------------------------------------------------------------
(* Properties of the evaluation runs *)

\* the per-command decision and rule of the i-th command of the list
PerCommand(i) == evaluate_single_with_trace(config, commands[i], cwd)

Strictness(kind) == CASE kind = "Deny" -> 2 [] kind = "Prompt" -> 1 [] kind = "Allow" -> 0

\* the leftmost command whose per-command decision has the given kind
Leftmost(kind) ==
    CHOOSE i \in 1..Len(commands) :
        /\ PerCommand(i)[1].kind = kind
        /\ \A j \in 1..(i - 1) : PerCommand(j)[1].kind # kind

\* C2: for a non-empty command list, the decision evaluate_all returns has
\* the strictest kind among the per-command decisions (Deny > Prompt >
\* Allow) and is the per-command decision, message included, of the leftmost
\* command of that kind; it is Allow only if every per-command decision is.
C2_StrictestWins ==
    (pc = "evaluated" /\ commands # <<>>) =>
        /\ \A i \in 1..Len(commands) :
            Strictness(PerCommand(i)[1].kind) <= Strictness(decision.kind)
        /\ \E i \in 1..Len(commands) : PerCommand(i)[1].kind = decision.kind
        /\ decision = PerCommand(Leftmost(decision.kind))[1]
        /\ (decision = Allow =>
                \A i \in 1..Len(commands) : PerCommand(i)[1] = Allow)

\* a list of three commands, the first prompted, the second and third denied
\* with different messages: the second's Deny is returned
C2_Witness ==
    /\ pc = "evaluated"
    /\ Len(commands) = 3
    /\ PerCommand(1)[1].kind = "Prompt"
    /\ PerCommand(2)[1].kind = "Deny"
    /\ PerCommand(3)[1].kind = "Deny"
    /\ PerCommand(2)[1] # PerCommand(3)[1]
    /\ decision = PerCommand(2)[1]

\* the configuration as declared: the file's, or the default without a file
Declared == IF IsSome(file_config) THEN Unwrap(file_config) ELSE DefaultConfig

RECURSIVE RulesOfProfiles(_)
\* the rules of the named profile files, one profile after the other
RulesOfProfiles(names) ==
    IF names = <<>> THEN <<>>
    ELSE profile_store[Head(names)] \o RulesOfProfiles(Tail(names))

\* the decision and rule that the first matching rule of a list gives, the
\* default action's when none matches
FirstMatchOutcome(order, c) ==
    LET hits == {i \in 1..Len(order) : matches(order[i], c, cwd)} IN
    IF hits = {} THEN <<DefaultDecision(Declared), None>>
    ELSE LET first == CHOOSE i \in hits : \A j \in hits : i <= j IN
         <<make_decision(order[first]), Some(order[first])>>

\* C3: the decision for one command is produced by the first matching rule
\* in the order: the inline rules as declared, then the rules of each active
\* profile (the profiles the configuration names, builtins and custom), the
\* profiles in the order of activation, each profile's rules as declared.
C3_PrecedenceActiveProfiles ==
    pc = "evaluated_single" =>
        <<decision, matched_rule>> =
            FirstMatchOutcome(
                Declared.rules \o
                RulesOfProfiles(Declared.profiles.builtins \o Declared.profiles.custom),
                command)

\* What the code does: the same with the builtin profiles alone.
C3_PrecedenceLoadedProfiles ==
    pc = "evaluated_single" =>
        <<decision, matched_rule>> =
            FirstMatchOutcome(
                Declared.rules \o RulesOfProfiles(Declared.profiles.builtins),
                command)

\* an inline rule overrides a rule of the first profile, which overrides a
\* rule of the second
C3_Witness ==
    /\ pc = "evaluated_single"
    /\ Len(config.loaded_profiles) = 2
    /\ \E i \in 1..Len(config.rules) :
        /\ matches(config.rules[i], command, cwd)
        /\ matched_rule = Some(config.rules[i])
        /\ \E k \in 1..2 : \E j \in 1..Len(config.loaded_profiles[k].rules) :
            /\ matches(config.loaded_profiles[k].rules[j], command, cwd)
            /\ config.loaded_profiles[k].rules[j].action # config.rules[i].action

RECURSIVE RulesOfLoaded(_)
RulesOfLoaded(profiles) ==
    IF profiles = <<>> THEN <<>>
    ELSE Head(profiles).rules \o RulesOfLoaded(Tail(profiles))

\* the rules the evaluator holds, in one list
HeldRules == config.rules \o RulesOfLoaded(config.loaded_profiles)

FallbackText(kind) ==
    IF kind = "Deny" THEN "Blocked by rule" ELSE "Requires confirmation"

GenericText(kind) ==
    IF kind = "Deny" THEN "Blocked by default policy" ELSE "No matching rule found"

\* C8: the kind of a per-command decision is the action of the first
\* matching rule, or the default action when no rule matches; a Deny or
\* Prompt of a rule carries the rule's message, or "Blocked by rule" /
\* "Requires confirmation" when it has none; a Deny or Prompt of the default
\* action carries "Blocked by default policy" / "No matching rule found" and
\* comes with no rule.
C8_DecisionConstruction ==
    pc = "evaluated_single" =>
        LET hits == {i \in 1..Len(HeldRules) : matches(HeldRules[i], command, cwd)} IN
        IF hits # {}
        THEN LET r == HeldRules[CHOOSE i \in hits : \A j \in hits : i <= j] IN
             /\ decision.kind = r.action
             /\ DOMAIN decision = IF r.action = "Allow" THEN {"kind"}
                                  ELSE {"kind", "message"}
             /\ (r.action # "Allow" /\ IsSome(r.message)) =>
                    decision.message = Unwrap(r.message)
             /\ (r.action # "Allow" /\ ~IsSome(r.message)) =>
                    decision.message = FallbackText(r.action)
        ELSE /\ decision.kind = config.settings.default_action
             /\ DOMAIN decision = IF decision.kind = "Allow" THEN {"kind"}
                                  ELSE {"kind", "message"}
             /\ decision.kind # "Allow" =>
                    decision.message = GenericText(decision.kind)
             /\ matched_rule = None

\* a Deny of a rule without message, after a non-matching rule
C8_Witness ==
    /\ pc = "evaluated_single"
    /\ decision = Deny("Blocked by rule")
    /\ IsSome(matched_rule)
    /\ Len(config.rules) >= 2
    /\ matched_rule # Some(config.rules[1])

\* C9: for a non-empty command list, the rule evaluate_all_with_trace
\* returns is the rule matched by the leftmost command whose per-command
\* decision has the aggregate's kind; it is absent only when that command's
\* decision came from the default action.
C9_TraceRuleOfLeftmost ==
    (pc = "evaluated" /\ commands # <<>>) =>
        matched_rule = PerCommand(Leftmost(decision.kind))[2]

\* What the code does: the same for an aggregate Deny or Prompt; with an
\* aggregate Allow no rule is returned.
C9_TraceRuleUnlessAllow ==
    (pc = "evaluated" /\ commands # <<>>) =>
        matched_rule = IF decision = Allow THEN None
                       ELSE PerCommand(Leftmost(decision.kind))[2]

\* a rule whose args regular expression does not compile
HasBadRegex(r) == IsSome(r.args_regex) /\ ~RegexCompiles(Unwrap(r.args_regex))

\* the configuration without such rules
WithoutBadRegex(cfg) ==
    [cfg EXCEPT
        !.rules = SelectSeq(@, LAMBDA r : ~HasBadRegex(r)),
        !.loaded_profiles =
            [i \in DOMAIN @ |->
                [@[i] EXCEPT !.rules = SelectSeq(@, LAMBDA r : ~HasBadRegex(r))]]]

\* C14: a rule whose args regular expression does not compile is never the
\* matched rule, and the decision and the rule returned are those that the
\* remaining rules and the default action give without it, for one command
\* and for a command list.
C14_InvalidRegexNoMatch ==
    /\ pc \in {"evaluated", "evaluated_single"} =>
            /\ IsSome(matched_rule) => ~HasBadRegex(Unwrap(matched_rule))
            /\ decision.kind \in Actions
    /\ pc = "evaluated_single" =>
            <<decision, matched_rule>> =
                evaluate_single_with_trace(WithoutBadRegex(config), command, cwd)
    /\ pc = "evaluated" =>
            <<decision, matched_rule>> =
                evaluate_all_with_trace(WithoutBadRegex(config), commands, cwd)

\* the first rule has the invalid pattern and no other condition; rm is
\* denied by the second rule
C14_Witness ==
    /\ pc = "evaluated_single"
    /\ Len(config.rules) = 2
    /\ HasBadRegex(config.rules[1])
    /\ command = Cmd(<<"rm", "-rf", "main">>)
    /\ matched_rule = Some(config.rules[2])
    /\ decision = Deny("rm blocked")

-----------------------------------------------------------------------------
(* Properties of the matcher runs *)

IsPrefix(p, q) == Len(p) <= Len(q) /\ SubSeq(q, 1, Len(p)) = p

\* C10: a rule whose exact flag is set matches only commands whose
\* sub-command path equals the rule's list, whatever the list, the empty one
\* included; a rule whose flag is not set matches only commands of whose
\* path its list is a prefix.
C10_SubcommandCondition ==
    (pc = "matched" /\ matched) =>
        IF rule.subcommands_exact
        THEN command.subcommands = rule.subcommands
        ELSE IsPrefix(rule.subcommands, command.subcommands)

\* What the code does: the same, an empty list being no constraint in
\* either mode.
C10_SubcommandConditionNonEmpty ==
    (pc = "matched" /\ matched /\ rule.subcommands # <<>>) =>
        IF rule.subcommands_exact
        THEN command.subcommands = rule.subcommands
        ELSE IsPrefix(rule.subcommands, command.subcommands)

\* {subcommands: [remote], exact: false} matches git remote add origin
C10_Witness ==
    /\ pc = "matched"
    /\ matched
    /\ rule.subcommands = <<"remote">>
    /\ ~rule.subcommands_exact
    /\ command = Cmd(<<"git", "remote", "add", "origin">>)

\* C11: a rule with a working-directory glob matches only when the current
\* working directory is known and matches the glob; with an invalid glob, or
\* with the working directory unknown, it matches no command.
C11_WorkingDirCondition ==
    (pc = "matched" /\ IsSome(rule.working_dir) /\ matched) =>
        /\ IsSome(cwd)
        /\ GlobCompiles(Unwrap(rule.working_dir))
        /\ GlobMatches(Unwrap(rule.working_dir), Unwrap(cwd))

\* What the code does: the same while the working directory is known; when
\* it is not, the glob is not looked at.
C11_WorkingDirWhenKnown ==
    (pc = "matched" /\ IsSome(rule.working_dir) /\ matched /\ IsSome(cwd)) =>
        /\ GlobCompiles(Unwrap(rule.working_dir))
        /\ GlobMatches(Unwrap(rule.working_dir), Unwrap(cwd))

\* the rule {working_dir: "/tmp"} matched git remote in /tmp
C11_Witness ==
    /\ pc = "matched"
    /\ matched
    /\ rule.working_dir = Some("/tmp")
    /\ cwd = Some("/tmp")
    /\ command = Cmd(<<"git", "remote">>)

\* a rule without any condition
Unconditional(r) ==
    /\ r.program = None
    /\ r.subcommands = <<>>
    /\ r.flags_present = <<>>
    /\ r.flags_absent = <<>>
    /\ r.args_match = None
    /\ r.args_regex = None
    /\ r.working_dir = None

\* the rules that r becomes when one of its conditions is left out
Weakenings(r) ==
    {[r EXCEPT !.program = None],
     [r EXCEPT !.subcommands = <<>>],
     [r EXCEPT !.flags_present = <<>>],
     [r EXCEPT !.flags_absent = <<>>],
     [r EXCEPT !.args_match = None],
     [r EXCEPT !.args_regex = None],
     [r EXCEPT !.working_dir = None]} \ {r}

CheckNames ==
    <<"program", "subcommands", "flags_present", "flags_absent",
      "args_match", "args_regex", "working_dir">>

\* the outcome of one condition of the rule
CheckOk(n, r, c, dir) ==
    CASE n = "program" -> ProgramOk(r, c)
      [] n = "subcommands" -> SubcommandsOk(r, c)
      [] n = "flags_present" ->
            \A i \in 1..Len(r.flags_present) : r.flags_present[i] \in c.flags
      [] n = "flags_absent" ->
            \A i \in 1..Len(r.flags_absent) : r.flags_absent[i] \notin c.flags
      [] n = "args_match" -> ArgsMatchOk(r, c)
      [] n = "args_regex" -> ArgsRegexOk(r, c)
      [] n = "working_dir" -> WorkingDirOk(r, dir)

RECURSIVE MatchesInOrder(_, _, _, _)
\* the conditions checked in the given order, the first failure returning
\* false
MatchesInOrder(order, r, c, dir) ==
    IF order = <<>> THEN TRUE
    ELSE IF ~CheckOk(Head(order), r, c, dir) THEN FALSE
    ELSE MatchesInOrder(Tail(order), r, c, dir)

\* the orders of the conditions tried: each condition first, the others in
\* the order of the code after it, and the order of the code reversed
CheckOrders ==
    {[i \in 1..Len(CheckNames) |->
        IF i = 1 THEN CheckNames[k]
        ELSE IF i <= k THEN CheckNames[i - 1] ELSE CheckNames[i]] :
            k \in 1..Len(CheckNames)}
    \cup {[i \in 1..Len(CheckNames) |-> CheckNames[Len(CheckNames) + 1 - i]]}

\* C13: a rule without conditions matches every command; a rule that matches
\* a command still matches it when any one of its conditions is left out;
\* and checking the conditions in another order gives the same result.
C13_Conjunctive ==
    pc = "matched" =>
        /\ Unconditional(rule) => matched
        /\ matched => \A w \in Weakenings(rule) : matches(w, command, cwd)
        /\ \A order \in CheckOrders :
                MatchesInOrder(order, rule, command, cwd) = matched

\* the rule {program: git, subcommands: [remote], flags_absent: [-f]}
\* matched git remote add origin, as do the six rules it weakens to
C13_Witness ==
    /\ pc = "matched"
    /\ matched
    /\ rule.program = Some("git")
    /\ rule.subcommands = <<"remote">>
    /\ rule.flags_absent = <<"-f">>
    /\ command = Cmd(<<"git", "remote", "add", "origin">>)
    /\ Cardinality(Weakenings(rule)) = 3

-----------------------------------------------------------------------------
(* Properties of the parse runs *)

\* the words of the command strings, as written
TextWords == {"ls", "rm", "A=1", "'rm'"}

\* a word of the form NAME=VALUE, as written
IsAssignmentText(w) == w \in {"A=1", "A=$(date)"}

\* a word of the command strings with its quotes removed
Unquoted(w) == IF w = "'rm'" THEN "rm" ELSE w

RECURSIVE SegmentsOf(_, _)
\* the runs of lexemes between the operators |, &&, || and ; (blanks
\* dropped): cur is the run being read
SegmentsOf(text, cur) ==
    IF text = <<>> THEN <<cur>>
    ELSE IF Head(text) \in Joiners
         THEN <<cur>> \o SegmentsOf(Tail(text), <<>>)
         ELSE SegmentsOf(Tail(text),
                         IF Head(text) = "" THEN cur ELSE Append(cur, Head(text)))

RECURSIVE ProgramOfText(_)
\* the program word of a simple command's text: its first word that is not
\* an assignment, unquoted; None when it has none
ProgramOfText(seg) ==
    IF seg = <<>> THEN None
    ELSE IF IsAssignmentText(Head(seg)) THEN ProgramOfText(Tail(seg))
         ELSE Some(Unquoted(Head(seg)))

\* the text is simple commands joined by |, &&, || and ;
JoinedSimple(text) ==
    LET segs == SegmentsOf(text, <<>>) IN
    \A i \in 1..Len(segs) :
        /\ segs[i] # <<>>
        /\ \A j \in 1..Len(segs[i]) : segs[i][j] \in TextWords

\* each of the joined simple commands has a program word
EachHasProgram(text) ==
    LET segs == SegmentsOf(text, <<>>) IN
    \A i \in 1..Len(segs) : IsSome(ProgramOfText(segs[i]))

\* one of the joined simple commands has program word p
Invokes(text, p) ==
    LET segs == SegmentsOf(text, <<>>) IN
    \E i \in 1..Len(segs) : ProgramOfText(segs[i]) = Some(p)

\* C1: under a configuration whose only rule denies program p, the default
\* being Allow, an input of simple commands joined by |, &&, || and ; of
\* which one, at any position, has program word p is parsed by
\* parse_with_brush without error, and evaluate_all gives Deny for the
\* result.
C1_NoBypass ==
    \A p \in {"rm", "ls"} :
        (config = GuardConfig(p) /\ JoinedSimple(input) /\ Invokes(input, p)) =>
            /\ pc # "parse_failed"
            /\ pc = "evaluated" => decision.kind = "Deny"

\* `ls | A=1 'rm'` is denied under the rule on rm: the denied program is the
\* second command of a pipeline, quoted, behind an assignment
C1_Witness ==
    /\ pc = "evaluated"
    /\ config = GuardConfig("rm")
    /\ input = <<"ls", "|", "A=1", "'rm'">>
    /\ decision = Deny("blocked")

\* C4: for an input of N simple commands, each with a program word, joined
\* by |, &&, || and ; alone, parse_with_brush returns N commands, the
\* program of the i-th being the program word of the i-th simple command.
C4_ExtractionCompleteness ==
    (pc # "start" /\ JoinedSimple(input) /\ EachHasProgram(input)) =>
        LET segs == SegmentsOf(input, <<>>) IN
        /\ parsed.ok
        /\ Len(parsed.value) = Len(segs)
        /\ \A i \in 1..Len(segs) :
                parsed.value[i].program = Unwrap(ProgramOfText(segs[i]))

\* three commands joined by && and |, parsed into three commands
C4_Witness ==
    /\ pc = "parsed"
    /\ JoinedSimple(input) /\ EachHasProgram(input)
    /\ Len(SegmentsOf(input, <<>>)) = 3
    /\ \E i, j \in 1..Len(input) : i < j /\ input[i] = "&&" /\ input[j] = "|"
    /\ Len(parsed.value) = 3
    /\ parsed.value[1].program = "ls" /\ parsed.value[2].program = "rm"

\* the text is empty or holds whitespace only
BlankText(text) == \A i \in 1..Len(text) : text[i] = "" \/ text[i] = "\n"

\* the text holds assignments only, one at least
OnlyAssignments(text) ==
    /\ \E i \in 1..Len(text) : IsAssignmentText(text[i])
    /\ \A i \in 1..Len(text) : IsAssignmentText(text[i]) \/ text[i] = ""

\* C6: parse_with_brush returns Ok with the empty list for an empty or
\* whitespace-only input; for an input that is not blank it never returns
\* Ok with the empty list, and for one that holds variable assignments only
\* it returns the error "No commands found in input".
C6_EmptyInputAndNoCommands ==
    pc # "start" =>
        /\ BlankText(input) => parsed = Ok(<<>>)
        /\ (~BlankText(input) /\ parsed.ok) => parsed.value # <<>>
        /\ OnlyAssignments(input) => parsed = Err("No commands found in input")

\* two assignments and nothing else: an error
C6_Witness ==
    /\ pc = "parse_failed"
    /\ OnlyAssignments(input)
    /\ Len(input) >= 2
    /\ ~parsed.ok

RECURSIVE LeadingAssignments(_)
\* the number of assignment words a simple command's text starts with
LeadingAssignments(seg) ==
    IF seg = <<>> \/ ~IsAssignmentText(Head(seg)) THEN 0
    ELSE 1 + LeadingAssignments(Tail(seg))

\* C15: in a simple command NAME=VALUE words before the program word are
\* the environment assignments and are in none of args, flags and
\* sub-commands; the words after the program word, those of the form
\* NAME=VALUE included, are the positional words, as written, and none of
\* them is an environment assignment.
C15_AssignmentPosition ==
    (pc # "start" /\ JoinedSimple(input) /\ EachHasProgram(input)) =>
        LET segs == SegmentsOf(input, <<>>) IN
        /\ parsed.ok
        /\ \A i \in 1..Len(segs) :
                LET k == LeadingAssignments(segs[i])
                    c == parsed.value[i]
                IN
                /\ c.env_vars = IF k > 0 THEN {<<"A", "1">>} ELSE {}
                /\ c.args = [j \in 1..(Len(segs[i]) - k - 1) |->
                                Unquoted(segs[i][k + 1 + j])]
                /\ c.subcommands = <<>>
                /\ c.flags = {}

\* A=1 ls A=1: one environment assignment, and the argument A=1
C15_Witness ==
    /\ pc = "parsed"
    /\ input = <<"A=1", "ls", "A=1">>
    /\ Len(parsed.value) = 1
    /\ parsed.value[1].program = "ls"
    /\ parsed.value[1].env_vars = {<<"A", "1">>}
    /\ parsed.value[1].args = <<"A=1">>

\* ls A=1: no environment assignment, and the argument A=1
C15_WitnessSuffixOnly ==
    /\ pc = "parsed"
    /\ input = <<"ls", "A=1">>
    /\ parsed.value[1].env_vars = {}
    /\ parsed.value[1].args = <<"A=1">>

\* the program words of the joined simple commands that have one
ProgramsOfText(text) ==
    LET segs == SelectSeq(SegmentsOf(text, <<>>),
                          LAMBDA seg : IsSome(ProgramOfText(seg)))
    IN [i \in 1..Len(segs) |-> Unwrap(ProgramOfText(segs[i]))]

\* C16: every command parse_with_brush returns has a program that is not
\* the empty string; for simple commands joined by operators the programs
\* are the program words of those that have one, a simple command of
\* assignments only giving no command.
C16_ProgramNonEmpty ==
    (pc # "start" /\ parsed.ok) =>
        /\ \A i \in 1..Len(parsed.value) : parsed.value[i].program # ""
        /\ JoinedSimple(input) =>
                [i \in 1..Len(parsed.value) |-> parsed.value[i].program]
                    = ProgramsOfText(input)

\* What the code does: the same for the inputs without a word that is empty
\* once unquoted.
C16_ProgramNonEmptyUnlessEmptyWord ==
    (pc # "start" /\ parsed.ok /\ \A i \in 1..Len(input) : input[i] # "''") =>
        /\ \A i \in 1..Len(parsed.value) : parsed.value[i].program # ""
        /\ JoinedSimple(input) =>
                [i \in 1..Len(parsed.value) |-> parsed.value[i].program]
                    = ProgramsOfText(input)

\* ls ; A=1 gives the one command ls
C16_Witness ==
    /\ pc = "parsed"
    /\ input = <<"ls", ";", "A=1">>
    /\ Len(parsed.value) = 1
    /\ parsed.value[1].program = "ls"

-----------------------------------------------------------------------------
(* Properties of the extraction runs *)

RECURSIVE SkipPast(_, _)
\* the text after the first occurrence of a lexeme
SkipPast(text, closer) ==
    IF text = <<>> THEN <<>>
    ELSE IF Head(text) = closer THEN Tail(text)
    ELSE SkipPast(Tail(text), closer)

RECURSIVE SkipBraces(_, _)
\* the text after the "}" that closes the depth-th open "{"
SkipBraces(text, depth) ==
    IF text = <<>> \/ depth = 0 THEN text
    ELSE SkipBraces(Tail(text),
                    CASE Head(text) = "{" -> depth + 1
                      [] Head(text) = "}" -> depth - 1
                      [] OTHER -> depth)

\* the lexemes after which (or at which) a command can start
CommandBoundaries ==
    {";", "|", "&&", "||", "\n", "(", ")", "{", "}", "if", "then", "elif",
     "else", "fi", "while", "until", "do", "done", "esac"}

RECURSIVE ProgramWordsFrom(_, _)
\* The program words of the simple commands of a command string, read from
\* left to right.  mode is "cmd" where a command can start, "args" after a
\* program word, "pattern" in the patterns of a case.  What stands inside a
\* function definition, [[ ]], (( )), the head of a for loop or a process
\* substitution is passed over, and so is a redirection with its target.
ProgramWordsFrom(text, mode) ==
    IF text = <<>> THEN <<>>
    ELSE LET h == Head(text) rest == Tail(text) IN
         CASE mode = "pattern" ->
                ProgramWordsFrom(rest, IF h \in {")", "esac"} THEN "cmd" ELSE "pattern")
           [] mode = "args" ->
                IF h \in {";", "|", "&&", "||", "\n"} THEN ProgramWordsFrom(rest, "cmd")
                ELSE IF h \in {"<(", ">("}
                     THEN ProgramWordsFrom(SkipPast(rest, ")"), "args")
                ELSE ProgramWordsFrom(rest, "args")
           [] mode = "cmd" ->
                IF h \in CommandBoundaries THEN ProgramWordsFrom(rest, "cmd")
                ELSE IF h \in {">", ">>", "<"} THEN ProgramWordsFrom(Tail(rest), "cmd")
                ELSE IF h \in {"<(", ">("}
                     THEN ProgramWordsFrom(SkipPast(rest, ")"), "cmd")
                ELSE IF h = "for" THEN ProgramWordsFrom(SkipPast(rest, "do"), "cmd")
                ELSE IF h = "case" THEN ProgramWordsFrom(SkipPast(rest, "in"), "pattern")
                ELSE IF h = ";;" THEN ProgramWordsFrom(rest, "pattern")
                ELSE IF h = "((" THEN ProgramWordsFrom(SkipPast(rest, "))"), "cmd")
                ELSE IF h = "[[" THEN ProgramWordsFrom(SkipPast(rest, "]]"), "cmd")
                ELSE IF rest # <<>> /\ Head(rest) = "()"
                     THEN ProgramWordsFrom(SkipBraces(SkipPast(rest, "{"), 1), "cmd")
                ELSE IF IsAssignmentText(h) THEN ProgramWordsFrom(rest, "cmd")
                ELSE <<Unquoted(h)>> \o ProgramWordsFrom(rest, "args")

\* C5: the commands parse_with_brush returns are the simple commands of the
\* command string in the order of the text: those of the bodies of
\* subshells, brace groups, for, while, until and arithmetic-for loops, of
\* the conditions of while and until, of the condition, the then-branch and
\* every elif and else branch of an if, and of every branch of a case, each
\* at its place; function definitions, extended tests and arithmetic
\* commands give none.  (A process substitution is an item of the simple
\* command that holds it.)
C5_Flattening ==
    pc # "start" =>
        LET words == ProgramWordsFrom(input, "cmd") IN
        IF words = <<>>
        THEN parsed.ok => parsed.value = <<>>
        ELSE /\ parsed.ok
             /\ Len(parsed.value) = Len(words)
             /\ \A i \in 1..Len(words) : parsed.value[i].program = words[i]

\* an if whose elif condition is a while loop: the six commands come out in
\* the order of the text
C5_Witness ==
    /\ pc = "parsed"
    /\ \E i, j \in 1..Len(input) : i < j /\ input[i] = "elif" /\ input[j] = "while"
    /\ Len(parsed.value) = 6
    /\ \A i \in 1..6 :
            parsed.value[i].program = <<"ls", "rm", "rm", "ls", "git", "ls">>[i]

-----------------------------------------------------------------------------
(* Properties of the check runs *)

\* tokenizing or parsing the text fails
ParseFails(text) ==
    \/ ~tokenize_str(text).ok
    \/ ~parse_tokens(tokenize_str(text).value).ok

\* C7: when tokenizing or parsing the input fails, check gets an error and
\* no command list from the parser, evaluates no rule, prints no decision,
\* and ends with exit status 1.
C7_ParseFailureIsFatal ==
    ParseFails(input) =>
        /\ pc \in {"start", "loaded", "failed"}
        /\ commands = <<>>
        /\ stdout = <<>>
        /\ exit_code = (IF pc = "failed" THEN Some(1) ELSE None)
        /\ (pc = "failed" /\ load(file_config, profile_store).ok) => ~parsed.ok

\* a pipeline without its second command, under a configuration that
\* loaded: the run ended with status 1 and printed nothing
C7_Witness ==
    /\ pc = "failed"
    /\ config = GuardConfig("rm")
    /\ input = <<"ls", "|">>
    /\ parsed = Err("Parse error")
    /\ stdout = <<>>
    /\ exit_code = Some(1)

-----------------------------------------------------------------------------
(* Properties of the analyzer runs *)

\* a word beginning with "-"
IsFlagWord(w) == CharsOf(w) # <<>> /\ CharsOf(w)[1] = "-"

\* the words of a list that do not begin with "-", in order
NonFlagWords(ws) == SelectSeq(ws, LAMBDA w : ~IsFlagWord(w))

\* the text of a word before its first "=" (the whole word without one)
TextBeforeEq(w) ==
    LET cs == CharsOf(w)
        stops == {i \in 1..Len(cs) : cs[i] = "="} \cup {Len(cs) + 1}
        k == CHOOSE i \in stops : \A j \in stops : i <= j
    IN JoinChars(SubSeq(cs, 1, k - 1))

\* the flags that one word stands for
WordFlags(w) ==
    LET cs == CharsOf(w) IN
    IF Len(cs) >= 2 /\ cs[1] = "-" /\ cs[2] = "-" THEN {TextBeforeEq(w)}
    ELSE IF Len(cs) >= 2 /\ cs[1] = "-"
         THEN {"-" \o cs[i] : i \in {j \in 2..Len(cs) : cs[j] \in Letters}}
         ELSE {}

\* C12: the flags of a command are those of its words: a word starting with
\* "--" gives the one flag that is its text before the first "=", a longer
\* word starting with a single "-" gives "-c" for each letter c in it, and
\* no other word gives a flag.
C12_FlagDecomposition ==
    pc = "analyzed" =>
        LET ws == Tail(input) IN
        /\ command.flags = UNION {WordFlags(ws[i]) : i \in 1..Len(ws)}
        /\ (\E i \in 1..Len(ws) : ws[i] = "--message=hello") =>
                "--message" \in command.flags /\ "--message=hello" \notin command.flags
        /\ (\E i \in 1..Len(ws) : ws[i] = "-rf") => {"-r", "-f"} \subseteq command.flags
        /\ (\A i \in 1..Len(ws) : ws[i] \in {"-", "-9", "origin", "add"}) =>
                command.flags = {}

\* rm --message=hello -rf -9 has the flags --message, -r and -f
C12_Witness ==
    /\ pc = "analyzed"
    /\ input = <<"rm", "--message=hello", "-rf", "-9">>
    /\ command.flags = {"--message", "-r", "-f"}

\* the place of the first word beginning with "-" (past the end without one)
FirstFlagIndex(ws) ==
    LET at == {i \in 1..Len(ws) : IsFlagWord(ws[i])} \cup {Len(ws) + 1}
    IN CHOOSE i \in at : \A j \in at : i <= j

\* C19: the words that begin with "-" are in neither the sub-command path nor
\* the positional arguments, which hold the other words in order; and the
\* sub-command path holds only words that stand before the first word
\* beginning with "-".
C19_FlagTransition ==
    pc = "analyzed" =>
        LET ws == Tail(input) IN
        /\ command.subcommands \o command.args = NonFlagWords(ws)
        /\ IsPrefix(command.subcommands, SubSeq(ws, 1, FirstFlagIndex(ws) - 1))
        /\ \A i \in 1..Len(ws) : IsFlagWord(ws[i]) => WordFlags(ws[i]) \subseteq command.flags

\* git remote -rf add: add is a known token and the depth is 1 of 2, but it
\* stands after a flag and is an argument
C19_Witness ==
    /\ pc = "analyzed"
    /\ input = <<"git", "remote", "-rf", "add">>
    /\ command.subcommands = <<"remote">>
    /\ command.args = <<"add">>
    /\ command.flags = {"-r", "-f"}

RECURSIVE KnownPrefix(_, _, _)
\* the leading words of ws that are known tokens of the program p, at most
\* depth of them
KnownPrefix(p, ws, depth) ==
    IF ws = <<>> \/ depth = 0 \/ p \notin DOMAIN Programs THEN <<>>
    ELSE IF IsFlagWord(Head(ws)) \/ Head(ws) \notin Programs[p].known_subcommands
    THEN <<>>
    ELSE <<Head(ws)>> \o KnownPrefix(p, Tail(ws), depth - 1)

\* C20: the sub-command path is the leading run of known tokens of the
\* program, up to its maximum depth, and every other word not beginning with
\* "-" is a positional argument, in order; for a program that is not in the
\* table the path is empty.
C20_SubcommandTransition ==
    pc = "analyzed" =>
        LET p == input[1]
            ws == Tail(input)
            max == IF p \in DOMAIN Programs
                   THEN Programs[p].max_subcommand_depth ELSE 0
            path == KnownPrefix(p, ws, max)
        IN
        /\ command.subcommands = path
        /\ command.args = NonFlagWords(SubSeq(ws, Len(path) + 1, Len(ws)))
        /\ p \notin DOMAIN Programs =>
                command.subcommands = <<>> /\ command.args = NonFlagWords(ws)

\* git remote origin add: remote is appended, origin is not a known token
\* and ends the scan, add is an argument
C20_Witness ==
    /\ pc = "analyzed"
    /\ input = <<"git", "remote", "origin", "add">>
    /\ command.subcommands = <<"remote">>
    /\ command.args = <<"origin", "add">>

-----------------------------------------------------------------------------
(* Properties of the repeated runs *)

C17_WitnessOtherDirectory ==
    /\ pc = "evaluated"
    /\ input = <<"rm">>
    /\ cwd = Some("/home")
    /\ stdout = <<"DENY: not here", "PROMPT: Requires confirmation">>


-----------------------------------------------------------------------------
(* Properties of the single-command parse runs *)

\* C18: ParsedCommand::parse gives no result that describes only the first
\* command of a command string from which the extractor gets two commands
\* or more, and no decision is made for such a string from its first command
\* alone.
C18_NoSingleCommandResult ==
    (pc \in {"parsed_single", "evaluated_single"}
        /\ parse_with_brush(input).ok
        /\ Len(parse_with_brush(input).value) >= 2)
    => /\ parsed.value.program # parse_with_brush(input).value[1].program
       /\ pc = "evaluated_single"
            => decision = evaluate_all(config, parse_with_brush(input).value, cwd)

\* What the code does: for simple commands joined by operators, each with a
\* program word, the result is the first command's program, with is_piped
\* telling whether the string holds a "|", and the decision is the one for
\* that command alone.
C18_FirstCommandOnly ==
    (pc \in {"parsed_single", "evaluated_single"}
        /\ JoinedSimple(input) /\ EachHasProgram(input))
    => /\ parsed.ok
       /\ parsed.value.program = parse_with_brush(input).value[1].program
       /\ parsed.value.is_piped = (\E i \in 1..Len(input) : input[i] = "|")
       /\ pc = "evaluated_single"
            => decision = evaluate_all(config,
                              <<parse_with_brush(input).value[1]>>, cwd)

\* ls | rm under a rule denying rm: parsed as ls, piped, and allowed
C18_FirstCommandOnlyReached ==
    /\ pc = "evaluated_single"
    /\ input = <<"ls", "|", "rm">>
    /\ config = GuardConfig("rm")
    /\ parsed.value.program = "ls"
    /\ parsed.value.args = <<>>
    /\ parsed.value.is_piped
    /\ decision = Allow
    /\ evaluate_all(config, parse_with_brush(input).value, cwd).kind = "Deny"

-----------------------------------------------------------------------------
(* Properties of the matcher runs: the flag conditions *)

\* the flags of the words of a command
FlagsOfWords(c) ==
    UNION {WordFlags(c.raw[i]) : i \in 2..Len(c.raw)}

\* the flag conditions of a rule on the words of a command
FlagConditions(r, c) ==
    /\ \A i \in 1..Len(r.flags_present) : r.flags_present[i] \in FlagsOfWords(c)
    /\ \A i \in 1..Len(r.flags_absent) : r.flags_absent[i] \notin FlagsOfWords(c)

\* a rule with no condition but on flags
OnlyFlagConditions(r) ==
    /\ r.program = None /\ r.subcommands = <<>>
    /\ r.args_match = None /\ r.args_regex = None /\ r.working_dir = None

C21_WitnessRejected ==
    /\ pc = "matched"
    /\ command.raw = <<"rm", "-rf">>
    /\ OnlyFlagConditions(rule)
    /\ rule.flags_absent = <<"-f">> \/ rule.flags_present = <<"-r", "-v">>
    /\ ~matched

-----------------------------------------------------------------------------
(* Properties of the extraction runs: the pipe marks *)

\* the command lists of a compound command, in the order of the text
ListsIn(k) ==
    CASE k.kind \in {"Subshell", "BraceGroup"} -> <<k.list>>
      [] k.kind \in {"ForClause", "ArithmeticForClause"} -> <<k.body>>
      [] k.kind \in {"WhileClause", "UntilClause"} -> <<k.condition, k.body>>
      [] k.kind = "IfClause" ->
            LET elses == IF IsSome(k.elses) THEN Unwrap(k.elses) ELSE <<>>
                ListsOfElse(e) ==
                    (IF IsSome(e.condition) THEN <<Unwrap(e.condition)>> ELSE <<>>)
                    \o <<e.body>>
                F[i \in 0..Len(elses)] ==
                    IF i = 0 THEN <<>> ELSE F[i - 1] \o ListsOfElse(elses[i])
            IN <<k.condition, k.then>> \o F[Len(elses)]
      [] k.kind = "CaseClause" ->
            LET F[i \in 0..Len(k.cases)] ==
                    IF i = 0 THEN <<>>
                    ELSE F[i - 1] \o (IF IsSome(k.cases[i].cmd)
                                      THEN <<Unwrap(k.cases[i].cmd)>> ELSE <<>>)
            IN F[Len(k.cases)]
      [] k.kind = "Arithmetic" -> <<>>

\* the pipelines of a command list, in the order of the text
PipelinesOf(list) ==
    LET OfItem(it) ==
            <<it.and_or.first>>
            \o [j \in 1..Len(it.and_or.additional) |-> it.and_or.additional[j].pipeline]
        F[i \in 0..Len(list)] == IF i = 0 THEN <<>> ELSE F[i - 1] \o OfItem(list[i])
    IN F[Len(list)]

RECURSIVE MarksOfLists(_, _, _)
RECURSIVE MarksOfPipelines(_, _, _)
RECURSIVE MarksOfSeq(_, _, _)

\* The expected is_piped of the simple commands with a program word, in the
\* order of the text.  around tells whether the place is inside a stage of a
\* pipeline of several stages; with inherit a command list inside such a
\* stage is marked as the stage is, without it each command is marked for
\* its own pipeline alone.
MarksOfLists(lists, around, inherit) ==
    IF lists = <<>> THEN <<>>
    ELSE MarksOfPipelines(PipelinesOf(Head(lists)), around, inherit)
         \o MarksOfLists(Tail(lists), around, inherit)

MarksOfPipelines(pipelines, around, inherit) ==
    IF pipelines = <<>> THEN <<>>
    ELSE MarksOfSeq(Head(pipelines).seq,
                    around \/ Len(Head(pipelines).seq) > 1, inherit)
         \o MarksOfPipelines(Tail(pipelines), around, inherit)

MarksOfSeq(seq, piped, inherit) ==
    IF seq = <<>> THEN <<>>
    ELSE LET c == Head(seq) IN
         (CASE c.type = "Simple" ->
                    IF IsSome(c.simple.word_or_name) THEN <<piped>> ELSE <<>>
            [] c.type = "Compound" ->
                    MarksOfLists(ListsIn(c.compound), inherit /\ piped, inherit)
            [] OTHER -> <<>>)
         \o MarksOfSeq(Tail(seq), piped, inherit)

\* is_piped of the commands returned
PipedOf(cmds) == [i \in 1..Len(cmds) |-> cmds[i].is_piped]

\* C22: every simple command extracted from a stage of a pipeline of more
\* than one stage has is_piped = TRUE, the commands inside a compound
\* command that is such a stage included, and every other command has
\* is_piped = FALSE.
C22_PipeMarking ==
    pc = "parsed" =>
        PipedOf(parsed.value) = MarksOfLists(ast.complete_commands, FALSE, TRUE)

\* What the code does: is_piped tells whether the pipeline the simple command
\* is itself a stage of has more than one stage.
C22_PipeMarkingOwnPipeline ==
    pc = "parsed" =>
        PipedOf(parsed.value) = MarksOfLists(ast.complete_commands, FALSE, FALSE)

\* { ls && ( ls ) | rm -rf ; }: the ls inside the subshell is not marked
C22_CompoundStageReached ==
    /\ pc = "parsed"
    /\ ast = [complete_commands |->
                <<ListOf(BraceGroup(<<ListItem(AndOrList(Pipeline(<<Ls>>),
                    <<[op |-> "And",
                       pipeline |-> Pipeline(<<Subshell(ListOf(Ls)), RmRf>>)]>>),
                    ";")>>))>>]
    /\ PipedOf(parsed.value) = <<FALSE, FALSE, TRUE>>

-----------------------------------------------------------------------------
(* Properties of the extraction runs: the marks of a simple command *)

RECURSIVE SimplesOfLists(_)
RECURSIVE SimplesOfPipelines(_)
RECURSIVE SimplesOfSeq(_)

\* the simple commands with a program word, in the order of the text
SimplesOfLists(lists) ==
    IF lists = <<>> THEN <<>>
    ELSE SimplesOfPipelines(PipelinesOf(Head(lists))) \o SimplesOfLists(Tail(lists))

SimplesOfPipelines(pipelines) ==
    IF pipelines = <<>> THEN <<>>
    ELSE SimplesOfSeq(Head(pipelines).seq) \o SimplesOfPipelines(Tail(pipelines))

SimplesOfSeq(seq) ==
    IF seq = <<>> THEN <<>>
    ELSE LET c == Head(seq) IN
         (CASE c.type = "Simple" ->
                    IF IsSome(c.simple.word_or_name) THEN <<c.simple>> ELSE <<>>
            [] c.type = "Compound" -> SimplesOfLists(ListsIn(c.compound))
            [] OTHER -> <<>>)
         \o SimplesOfSeq(Tail(seq))

\* the items of a simple command around its program word
ItemsOf(s) == s.prefix \o s.suffix

\* a word without its quotes
Plain(w) ==
    CASE w = "'rm'" -> "rm"
      [] w = "'$HOME'" -> "$HOME"
      [] w = "\"$(date)\"" -> "$(date)"
      [] OTHER -> w

\* the words of a simple command as written: the program word, then the
\* words and the NAME=VALUE words after it
WrittenWords(s) ==
    LET F[i \in 0..Len(s.suffix)] ==
            IF i = 0 THEN <<>>
            ELSE F[i - 1] \o
                 (CASE s.suffix[i].kind = "Word" -> <<s.suffix[i].value>>
                    [] s.suffix[i].kind = "AssignmentWord" ->
                            <<s.suffix[i].name \o "=" \o s.suffix[i].value>>
                    [] OTHER -> <<>>)
    IN s.word_or_name \o F[Len(s.suffix)]

\* the words of a command: program, sub-commands, arguments, and its flags
PositionalWords(c) == <<c.program>> \o c.subcommands \o c.args

\* the redirection operators and targets of the model that are no word of
\* the command they stand in
RedirectTexts(s) ==
    ({">", ">>", "<", "<(", ">(", "out"}
     \cup {ItemsOf(s)[i].target :
            i \in {j \in 1..Len(ItemsOf(s)) : ItemsOf(s)[j].kind = "IoRedirect"}})
    \ {Plain(WrittenWords(s)[i]) : i \in 1..Len(WrittenWords(s))}

C23_WitnessProcessSubstitution ==
    /\ pc = "parsed"
    /\ ast = [complete_commands |->
                <<ListOf(Simple(<<>>, Some("ls"),
                                <<WordItem("$HOME"),
                                  ProcSubstItem(">(", ListOf(RmRf))>>))>>]
    /\ parsed.value[1].has_redirect
    /\ parsed.value[1].args = <<"$HOME">>

\* the words that hold a "$" followed by a character other than "(" and the
\* backquote, and those that hold "$(" or a backquote
ExpansionWords == {"$HOME", "'$HOME'", "$HOME$(date)", "A=$HOME"}
SubstitutionWords ==
    {"$(date)", "\"$(date)\"", "$HOME$(date)", BackquotedDate, "$" \o Backquote}

\* C24: has_expansion is TRUE exactly when a word of the command holds a "$"
\* followed by a character other than "(" and the backquote, has_substitution
\* exactly when a word holds "$(" or a backquote; each is decided alone, over
\* all the words of the command.
C24_ExpansionAndSubstitution ==
    pc = "parsed" =>
        LET ss == SimplesOfLists(ast.complete_commands) IN
        /\ Len(parsed.value) = Len(ss)
        /\ \A i \in 1..Len(ss) :
            LET ws == WrittenWords(ss[i]) IN
            /\ parsed.value[i].has_expansion <=>
                    \E j \in 1..Len(ws) : ws[j] \in ExpansionWords
            /\ parsed.value[i].has_substitution <=>
                    \E j \in 1..Len(ws) : ws[j] \in SubstitutionWords

\* ls $HOME: has_expansion alone
C24_Witness ==
    /\ pc = "parsed"
    /\ ast = [complete_commands |-> <<ListOf(Simple(<<>>, Some("ls"), <<WordItem("$HOME")>>))>>]
    /\ parsed.value[1].has_expansion
    /\ ~parsed.value[1].has_substitution

\* ls $(date): has_substitution alone
C24_WitnessSubstitution ==
    /\ pc = "parsed"
    /\ ast = [complete_commands |-> <<ListOf(Simple(<<>>, Some("ls"), <<WordItem("$(date)")>>))>>]
    /\ ~parsed.value[1].has_expansion
    /\ parsed.value[1].has_substitution

\* ls a$ $(date) '$HOME': both, from different words
C24_WitnessBoth ==
    /\ pc = "parsed"
    /\ ast = [complete_commands |->
                <<ListOf(Simple(<<>>, Some("ls"),
                                <<WordItem("$(date)"), WordItem("'$HOME'")>>))>>]
    /\ parsed.value[1].has_expansion
    /\ parsed.value[1].has_substitution

-----------------------------------------------------------------------------
(* Properties of the OpenCode plugin runs *)

\* C25: the bash tool call proceeds only when check returned a decision
\* without abort: when check exits with status 1 and prints no decision, the
\* plugin does not let the call proceed.
C25_FailSafe ==
    (pc = "tool_runs" /\ TextChars(input) # <<>>) =>
        /\ exit_code = Some(0)
        /\ JsonParse(stdout).ok
        /\ JsonParse(stdout).value.key = "allow"

\* What the code does: the call is aborted exactly when check printed a
\* decision with abort, and proceeds in every other case, a failure of check
\* included.
C25_AbortOnlyOnDecision ==
    /\ pc = "tool_aborted" =>
            /\ exit_code = Some(0)
            /\ decision.kind \in {"Deny", "Prompt"}
            /\ stdout[2] = "abort"
    /\ (pc = "tool_runs" /\ TextChars(input) # <<>>) =>
            \/ exit_code = Some(1) /\ stdout = <<>>
            \/ exit_code = Some(0) /\ decision.kind = "Allow"

\* ls | under a rule denying rm: check fails to parse, the tool call proceeds
C25_FailOpenReached ==
    /\ pc = "tool_runs"
    /\ input = <<"ls", "|">>
    /\ ~parsed.ok
    /\ exit_code = Some(1)
    /\ stdout = <<>>

\* rm under a rule denying rm: the tool call is aborted
C25_AbortReached ==
    /\ pc = "tool_aborted"
    /\ input = <<"rm">>
    /\ stdout = <<"{", "abort", ":", "blocked", "}">>

-----------------------------------------------------------------------------
(* Properties of the evaluation runs: the empty command list *)

\* C26: for the empty command list evaluate_all_with_trace gives Allow and
\* no rule under every configuration, also one whose default action is Deny
\* or Prompt; the default action decides only for a command that no rule
\* matches.
C26_EmptyListAllowed ==
    pc = "evaluated" =>
        /\ commands = <<>> =>
                /\ decision = Allow
                /\ matched_rule = None
                /\ evaluate_all(config, <<>>, cwd) = Allow
        /\ (Len(commands) = 1
                /\ \A i \in 1..Len(HeldRules) : ~matches(HeldRules[i], commands[1], cwd))
            => /\ decision.kind = config.settings.default_action
               /\ matched_rule = None

\* no command under a default of Deny with a rule: allowed
C26_Witness ==
    /\ pc = "evaluated"
    /\ commands = <<>>
    /\ config.settings.default_action = "Deny"
    /\ config.rules # <<>>
    /\ decision = Allow
    /\ matched_rule = None

\* one command that no rule matches under a default of Deny: denied
C26_WitnessDefaultForCommand ==
    /\ pc = "evaluated"
    /\ Len(commands) = 1
    /\ config.settings.default_action = "Deny"
    /\ \A i \in 1..Len(HeldRules) : ~matches(HeldRules[i], commands[1], cwd)
    /\ decision = Deny("Blocked by default policy")

-----------------------------------------------------------------------------
(* Properties of the scan runs *)

\* the maximum depth of the program of the run (0 when it is not in the
\* table) and its known tokens
MaxDepthOfRun ==
    IF input[1] \in DOMAIN Programs
    THEN Programs[input[1]].max_subcommand_depth ELSE 0
KnownOfRun ==
    IF input[1] \in DOMAIN Programs
    THEN Programs[input[1]].known_subcommands ELSE {}

\* the words the loop has taken so far
ScannedWords ==
    SubSeq(Tail(input), 1, Len(Tail(input)) - Len(scan.rest))

\* the next word can still be appended to the sub-command path
StillScanning(st) ==
    st.in_subcommand_region /\ st.subcommand_depth < MaxDepthOfRun

\* after each step: the depth is the length of the path and at most the
\* maximum, the path holds known tokens only, and the path followed by the
\* arguments is the words taken so far that do not begin with "-", in order
ScanInvariant ==
    /\ scan.st.subcommand_depth = Len(scan.st.subcommands)
    /\ scan.st.subcommand_depth <= MaxDepthOfRun
    /\ \A i \in 1..Len(scan.st.subcommands) : scan.st.subcommands[i] \in KnownOfRun
    /\ scan.st.subcommands \o scan.st.args = NonFlagWords(ScannedWords)
    /\ pc = "analyzed" =>
            /\ scan.rest = <<>>
            /\ command.subcommands \o command.args = NonFlagWords(Tail(input))

\* a step never re-enables the scan for sub-commands
ScanNeverReenabled ==
    /\ ~scan.st.in_subcommand_region => ~scan'.st.in_subcommand_region
    /\ ~StillScanning(scan.st) => ~StillScanning(scan'.st)

\* C27: after each step of the scan the depth counter is the length of the
\* sub-command path and at most the program's maximum depth, the path holds
\* known tokens of the program only, the scan for sub-commands once ended is
\* never re-enabled, and at the end the path followed by the arguments is
\* the input words that do not begin with "-", in order.
C27_AnalyzerInvariant == [] ScanInvariant /\ [][ScanNeverReenabled]_vars

\* git remote add rm: after the last word the path holds two tokens, the
\* maximum depth, and rm, a known token too, is an argument
C27_Witness ==
    /\ pc = "analyzed"
    /\ input = <<"git", "remote", "add", "rm">>
    /\ scan.st.subcommand_depth = 2
    /\ scan.st.in_subcommand_region
    /\ command.subcommands = <<"remote", "add">>
    /\ command.args = <<"rm">>

\* git -rf remote, before the last word: the scan has ended on the flag word
C27_WitnessEnded ==
    /\ pc = "scanning"
    /\ input = <<"git", "-rf", "remote">>
    /\ scan.rest = <<"remote">>
    /\ ~scan.st.in_subcommand_region
    /\ scan.st.subcommand_depth = 0


\* the words "-" and "-9": a single dash and what follows it holds no letter
TracelessWords == {"-", "-9"}

\* a word list with each of these words replaced by the other
SwapTraceless(ws) ==
    [i \in 1..Len(ws) |->
        IF ws[i] = "-" THEN "-9" ELSE IF ws[i] = "-9" THEN "-" ELSE ws[i]]

\* a rule with one condition, on flags or on the arguments
ConditionRules ==
    {[NoRule EXCEPT !.flags_present = <<w>>] : w \in TracelessWords}
    \cup {[NoRule EXCEPT !.flags_absent = <<w>>] : w \in TracelessWords}
    \cup {[NoRule EXCEPT !.args_match = Some(w)] : w \in TracelessWords}
    \cup {[NoRule EXCEPT !.args_regex = Some(w)] : w \in TracelessWords}

\* the step on one of these words changes nothing but in_subcommand_region
TracelessStep ==
    (pc = "scanning" /\ scan.rest # <<>> /\ Head(scan.rest) \in TracelessWords)
        => scan'.st = [scan.st EXCEPT !.in_subcommand_region = FALSE]

\* the result holds none of these words, is the result for the list with
\* each replaced by the other, and no rule with a condition on one of them
\* tells the two apart; a rule that requires one never matches
TracelessResult ==
    pc = "analyzed" =>
        LET other == Cmd(<<input[1]>> \o SwapTraceless(Tail(input))) IN
        /\ command.flags \cap TracelessWords = {}
        /\ \A i \in 1..Len(command.args) : command.args[i] \notin TracelessWords
        /\ \A i \in 1..Len(command.subcommands) :
                command.subcommands[i] \notin TracelessWords
        /\ command.subcommands = other.subcommands
        /\ command.flags = other.flags
        /\ command.args = other.args
        /\ \A r \in ConditionRules :
            /\ matches(r, command, cwd) = matches(r, other, cwd)
            /\ matches(r, command, cwd) = (r.flags_absent # <<>>)

\* C28: a word that is "-", or a single dash followed by no letter, adds no
\* flag and is in neither the arguments nor the sub-command path, though it
\* ends the scan for sub-commands; no flag or argument condition of a rule
\* can tell that the word is there.
C28_TracelessWords == [] TracelessResult /\ [][TracelessStep]_vars

\* git - remote: no flag, and remote, a known token, is an argument
C28_Witness ==
    /\ pc = "analyzed"
    /\ input = <<"git", "-", "remote">>
    /\ command.flags = {}
    /\ command.subcommands = <<>>
    /\ command.args = <<"remote">>
    /\ ~scan.st.in_subcommand_region


-----------------------------------------------------------------------------
(* Properties of the extraction runs: the invocations inside a substitution, *)
(* an assignment value or a function definition                               *)

\* the commands put in the place of an inner command
InnerCommands == {Ls, RmRf, GitPush}

\* a word with rm in the place of date inside its command substitution
WithInnerRm(w) ==
    CASE w = "$(date)" -> "$(rm)"
      [] w = "\"$(date)\"" -> "\"$(rm)\""
      [] w = "$HOME$(date)" -> "$HOME$(rm)"
      [] w = BackquotedDate -> BackquotedRm
      [] OTHER -> w

\* the items of a simple command with command o inside every process
\* substitution and, when words is TRUE, rm inside every command
\* substitution of a word; the value of an assignment before the program
\* word is changed in both cases
ReplaceItems(items, o, words, before) ==
    [i \in 1..Len(items) |->
        CASE items[i].kind = "ProcessSubstitution" ->
                [items[i] EXCEPT !.list = ListOf(o)]
          [] items[i].kind = "Word" /\ words ->
                [items[i] EXCEPT !.value = WithInnerRm(@)]
          [] items[i].kind = "AssignmentWord" /\ (before \/ words) ->
                [items[i] EXCEPT !.value = WithInnerRm(@)]
          [] OTHER -> items[i]]

\* a command with its inner invocations replaced: a simple command by its
\* items and, when words is TRUE, its program word; a function definition
\* by its body
ReplaceInner(c, o, words) ==
    CASE c.type = "Simple" ->
            Simple(ReplaceItems(c.simple.prefix, o, words, TRUE),
                   IF words /\ IsSome(c.simple.word_or_name)
                   THEN Some(WithInnerRm(Unwrap(c.simple.word_or_name)))
                   ELSE c.simple.word_or_name,
                   ReplaceItems(c.simple.suffix, o, words, FALSE))
      [] c.type = "Function" -> Function(BraceGroup(ListOf(o)))
      [] OTHER -> c

\* a program of the runs with the inner invocations of the command of each
\* complete command replaced
ReplaceInnerOf(program, o, words) ==
    [complete_commands |->
        [k \in 1..Len(program.complete_commands) |->
            ListOf(ReplaceInner(
                program.complete_commands[k][1].and_or.first.seq[1], o, words))]]

\* a Deny rule on a program, and a Deny rule on the text of the arguments
InnerProgramConfigs == {GuardConfig(p) : p \in {"rm", "date", "ls", "git"}}

ArgsTextConfigs ==
    {[DefaultConfig EXCEPT
        !.settings.default_action = "Allow",
        !.rules = <<r>>] :
        r \in {[ProgRule(None, <<>>, FALSE, "Deny", Some("blocked"))
                    EXCEPT !.args_match = Some("date")],
               [ProgRule(None, <<>>, FALSE, "Deny", Some("blocked"))
                    EXCEPT !.args_regex = Some("rm")]}}

\* the aggregate decision and matched rule for the result of the parse
AggregateOf(r, cfg) ==
    IF r.ok THEN evaluate_all_with_trace(cfg, r.value, cwd) ELSE <<"no decision">>

\* the decision does not change with the inner invocations
SameAggregate(o, words, cfgs) ==
    LET other == ReplaceInnerOf(ast, o, words) IN
    \A cfg \in cfgs :
        AggregateOf(parsed, cfg) = AggregateOf(ExtractProgram(other, TextOf(other)), cfg)

\* the commands of the result are the simple commands of the command tree
\* outside function definitions and process substitutions, by program word
InnerNotExtracted ==
    LET ss == SimplesOfLists(ast.complete_commands) IN
    /\ parsed.ok => Len(parsed.value) = Len(ss)
    /\ ~parsed.ok => ss = <<>>
    /\ parsed.ok =>
        \A i \in 1..Len(ss) : parsed.value[i].program = Plain(ss[i].word_or_name[1])

C29_WitnessFunction ==
    /\ pc = "parse_failed"
    /\ ast = [complete_commands |-> <<ListOf(Function(BraceGroup(ListOf(RmRf))))>>]

\* ls $(date): the text of the substitution is an argument
C29_WitnessArgument ==
    /\ pc = "parsed"
    /\ ast = [complete_commands |-> <<ListOf(Simple(<<>>, Some("ls"),
                    <<WordItem("$(date)")>>))>>]
    /\ parsed.value[1].args = <<"$(date)">>
    /\ parsed.value[1].has_substitution


-----------------------------------------------------------------------------
(* Properties of the matcher runs: the fields a rule cannot read *)

\* the commands that agree with c on program, sub-commands, flags and
\* arguments
SameWords(c) ==
    {[c EXCEPT !.env_vars = e, !.is_piped = p, !.has_redirect = rd,
               !.has_expansion = x, !.has_substitution = s, !.raw = t] :
        e \in {{}, {<<"A", "1">>}}, p \in BOOLEAN, rd \in BOOLEAN,
        x \in BOOLEAN, s \in BOOLEAN, t \in {c.raw, <<"ls">>}}

\* the configurations whose only rule is r
ConfigsOf(r) ==
    {[DefaultConfig EXCEPT !.settings.default_action = a, !.rules = <<r>>] :
        a \in {"Allow", "Deny", "Prompt"}}

\* C30: the result of matches and the decision and matched rule of the
\* evaluator are the same for two commands with the same program,
\* sub-commands, flags and arguments, whatever their env_vars, is_piped,
\* has_redirect, has_expansion, has_substitution and raw text.
C30_NonInterference ==
    pc = "matched" =>
        \A v \in SameWords(command) :
            /\ matches(rule, v, cwd) = matched
            /\ \A cfg \in ConfigsOf(rule) :
                evaluate_single_with_trace(cfg, v, cwd)
                    = evaluate_single_with_trace(cfg, command, cwd)

\* git remote add origin matches a rule on the text of the arguments, and
\* so does the same command piped, redirected, with a variable and with
\* another raw text
C30_Witness ==
    /\ pc = "matched"
    /\ matched
    /\ rule.args_match = Some("rig")
    /\ command.program = "git"
    /\ command.args = <<"origin">>
    /\ ~command.is_piped
    /\ matches(rule, [command EXCEPT !.is_piped = TRUE, !.has_redirect = TRUE,
                                     !.env_vars = {<<"A", "1">>}, !.raw = <<"ls">>], cwd)

=============================================================================
